---- MODULE Spec2Model ----
(***************************************************************************)
(* colorofit-api: the energy goal projection of users/serializers.py       *)
(* (TargetDetailSerializer) and the nutrient field mapper of               *)
(* food/services/spoonacular_service.py (_extract_nutrition_data).         *)
(*                                                                         *)
(* Numbers.  Weights and heights are Django DecimalFields with two         *)
(* decimal places: they are held in hundredths (80 kg = 8000).  An         *)
(* activity factor is held in thousandths (1.2 = 1200).  A quotient is     *)
(* rounded exactly as Python's round() rounds it: to the nearest integer,  *)
(* a tie going to the even neighbour.  Nutrient amounts are held in        *)
(* thousandths, so that rounding to two decimals is a real operation.      *)
(*                                                                         *)
(* An optional value (a nullable column, a JSON key that may be missing)   *)
(* is None == << >> or Some(v) == << v >>.                                 *)
(***************************************************************************)
EXTENDS Integers, Sequences, FiniteSets, TLC

VARIABLES
    obj,        \* the stored User row: the profile fields the serializers read
    response,   \* the body of the last HTTP response of the users app
    nutrients,  \* api_response['nutrition']['nutrients'] of the current call
    idx,        \* position of the for loop of _extract_nutrition_data
    rec,        \* the local accumulators of _extract_nutrition_data
    outcome,    \* where the current _extract_nutrition_data call stands
    result,     \* the dict the call returned, None before it returns
    raw_text,          \* the text handed to IngredientParser.normalize_text
    ingredient_lines,  \* the list normalize_text returned
    formatted,         \* the string format_for_spoonacular returned
    parser_step,       \* how far the recipe text has been taken
    meal_types,        \* the rows of the MealType table
    resolve_call,      \* the last resolve_meal_type call: arguments and outcome
    provider_call,     \* the last call of a provider adapter: upstream reply and outcome
    grouped,           \* the last group_food_items_by_meal_type call: input and result
    range_response,    \* the last RangeFoodStatsView.get: query and HTTP response
    frames,            \* per request thread: the operation it runs, its locals, its result
    tables             \* the module-level lookup tables of the process

goalVars == <<obj, response>>
extractVars == <<nutrients, idx, rec, outcome, result>>
parserVars == <<raw_text, ingredient_lines, formatted, parser_step>>
mealVars == <<meal_types, resolve_call>>
viewVars == <<provider_call, grouped, range_response>>
threadVars == <<frames, tables>>

vars == <<goalVars, extractVars, parserVars, mealVars, viewVars, threadVars>>

None == << >>
Some(v) == << v >>

\* no recipe text has been handed to the parser
ParserIdle ==
    /\ raw_text = << >>
    /\ ingredient_lines = << >>
    /\ formatted = << >>
    /\ parser_step = "idle"

\* no adapter, grouping or range statistics call yet
ViewsIdle ==
    /\ provider_call = None
    /\ grouped = None
    /\ range_response = None

\* no request thread is modelled
NoThreads ==
    /\ frames = << >>
    /\ tables = << >>

\* an empty MealType table and no resolve_meal_type call yet
NoMealTypes ==
    /\ meal_types = {}
    /\ resolve_call = None

\* ------------------------------------------------------------------------
\* Bounds of the model
\* ------------------------------------------------------------------------
\* aimed dates range over today - MaxPastDays .. today + 1, plus two far dates
MaxPastDays == 1
\* longest nutrients list drawn by an extraction call (besides the fixed lists)
MaxEntries == 2
\* the pieces a recipe text is made of, at most
MaxParts == 2
\* the rows of the MealType table, at most (the four categories apart)
MaxRows == 2

\* ------------------------------------------------------------------------
\* users/models.py: the profile columns
\* ------------------------------------------------------------------------
GENDER_CHOICES == {"female", "male", "other"}

LifeStyle_CHOICES ==
    {"Sedentary", "Lightly active", "Moderately active", "Active", "Very active"}

\* weight, in hundredths of a kg (DecimalField(5, 2), nullable, no validator)
WeightValues == {None, Some(0), Some(110), Some(7000), Some(7001), Some(8000)}
\* height, in hundredths of a cm
HeightValues == {None, Some(2480), Some(18000)}
\* age, in years (PositiveIntegerField, nullable)
AgeValues == {None, Some(1), Some(30)}
\* gender: null, blank or one of the choices
GenderValues == {None, Some("")} \cup {Some(g) : g \in GENDER_CHOICES}
\* life_style: null, blank or one of the choices
LifeStyleValues == {None, Some("")} \cup {Some(l) : l \in LifeStyle_CHOICES}
\* aimed_weight, in hundredths of a kg
AimedWeightValues == {None, Some(7001), Some(7500), Some(8500)}
\* aimed_date, as (aimed_date - date.today()).days
AimedDateValues ==
    {None} \cup {Some(d) : d \in ((0 - MaxPastDays) .. 1) \cup {30, 200}}

AimFields ==
    {"age", "gender", "height", "weight", "aimed_weight", "aimed_date", "life_style"}

FieldValues(f) ==
    CASE f = "age" -> AgeValues
      [] f = "gender" -> GenderValues
      [] f = "height" -> HeightValues
      [] f = "weight" -> WeightValues
      [] f = "aimed_weight" -> AimedWeightValues
      [] f = "aimed_date" -> AimedDateValues
      [] f = "life_style" -> LifeStyleValues

\* a freshly created user: every profile column is NULL
NewUser ==
    [age |-> None, gender |-> None, height |-> None, weight |-> None,
     aimed_weight |-> None, aimed_date |-> None, life_style |-> None]

\* ------------------------------------------------------------------------
\* Python built-ins used by the serializer
\* ------------------------------------------------------------------------
\* bool(x) of a nullable number: None and zero are falsy
TruthyNum(x) == x # None /\ x[1] # 0
\* bool(x) of a nullable string: None and '' are falsy
TruthyStr(x) == x # None /\ x[1] # ""
\* bool(x) of a nullable date: every date is truthy
TruthyDate(x) == x # None

Max(a, b) == IF a >= b THEN a ELSE b

\* round(n / d) for d > 0: nearest integer, ties to the even neighbour
round(n, d) ==
    LET q == n \div d
        r == n % d
    IN  IF 2 * r < d THEN q
        ELSE IF 2 * r > d THEN q + 1
        ELSE IF q % 2 = 0 THEN q ELSE q + 1

\* ------------------------------------------------------------------------
\* users/serializers.py: TargetDetailSerializer
\* ------------------------------------------------------------------------
KCAL_PER_KG == 7700
CALORIE_FLOOR == 1200
DEFAULT_FACTOR == 1200

\* activity_factors.get(life_style, 1.2), in thousandths
activity_factors(l) ==
    IF l = Some("Sedentary") THEN 1200
    ELSE IF l = Some("Lightly active") THEN 1375
    ELSE IF l = Some("Moderately active") THEN 1550
    ELSE IF l = Some("Active") THEN 1725
    ELSE IF l = Some("Very active") THEN 1900
    ELSE DEFAULT_FACTOR

\* 400 * bmr: 10 * weight + 6.25 * height - 5 * age + s
bmr400(o) ==
    LET s == IF o.gender = Some("male") THEN 5 ELSE 0 - 161
    IN  40 * o.weight[1] + 25 * o.height[1] - 2000 * o.age[1] + 400 * s

get_tdee_all_male(o) ==
    IF ~(TruthyNum(o.weight) /\ TruthyNum(o.height) /\ TruthyNum(o.age)
         /\ TruthyStr(o.gender))
    THEN 0
    ELSE round((40 * o.weight[1] + 25 * o.height[1] - 2000 * o.age[1] + 400 * 5)
               * activity_factors(o.life_style), 400000)

get_tdee(o) ==
    IF ~(TruthyNum(o.weight) /\ TruthyNum(o.height) /\ TruthyNum(o.age)
         /\ TruthyStr(o.gender))
    THEN 0
    ELSE round(bmr400(o) * activity_factors(o.life_style), 400000)

get_daily_deficit_floored(o) ==
    IF ~(TruthyNum(o.weight) /\ TruthyNum(o.aimed_weight) /\ TruthyDate(o.aimed_date))
    THEN 0
    ELSE ((o.weight[1] - o.aimed_weight[1]) * KCAL_PER_KG)
            \div (100 * Max(o.aimed_date[1], 1))

get_daily_deficit(o) ==
    IF ~(TruthyNum(o.weight) /\ TruthyNum(o.aimed_weight) /\ TruthyDate(o.aimed_date))
    THEN 0
    ELSE LET weight_loss_goal == o.weight[1] - o.aimed_weight[1]
             days_left == Max(o.aimed_date[1], 1)
         IN  round(weight_loss_goal * KCAL_PER_KG, 100 * days_left)

get_calorie_target_no_sentinel(o) ==
    Max(get_tdee(o) - get_daily_deficit(o), CALORIE_FLOOR)

get_calorie_target_no_floor(o) ==
    IF get_tdee(o) = 0 THEN 0 ELSE get_tdee(o) - get_daily_deficit(o)

get_calorie_target(o) ==
    LET tdee == get_tdee(o)
        daily_deficit == get_daily_deficit(o)
    IN  IF tdee = 0 THEN 0
        ELSE Max(tdee - daily_deficit, CALORIE_FLOOR)

get_days_left_clamp_one(o) ==
    IF o.aimed_date = None THEN 0 ELSE Max(o.aimed_date[1], 1)

get_days_left(o) ==
    IF o.aimed_date = None THEN 0 ELSE Max(o.aimed_date[1], 0)

\* TargetDetailSerializer(obj).data
TargetDetail(o) ==
    [kind |-> "target",
     tdee |-> get_tdee(o),
     daily_deficit |-> get_daily_deficit(o),
     calorie_target |-> get_calorie_target(o),
     days_left |-> get_days_left(o)]

\* ------------------------------------------------------------------------
\* users/views.py: the two profile views
\* ------------------------------------------------------------------------
\* UserAimDetailUpdateView: PATCH of one profile field
UserAimDetailUpdate ==
    /\ \E f \in AimFields : \E v \in FieldValues(f) :
          obj' = [obj EXCEPT ![f] = v]
    /\ response' = [kind |-> "aim"]
    /\ UNCHANGED <<nutrients, idx, rec, outcome, result>>
    /\ UNCHANGED <<parserVars, mealVars, viewVars, threadVars>>

\* TargetDetailView: GET of the projection of the stored profile
TargetDetailRetrieve ==
    /\ response' = TargetDetail(obj)
    /\ UNCHANGED <<obj, nutrients, idx, rec, outcome, result>>
    /\ UNCHANGED <<parserVars, mealVars, viewVars, threadVars>>

InitGoal ==
    /\ obj = NewUser
    /\ response = [kind |-> "none"]
    /\ nutrients = << >>
    /\ idx = 0
    /\ rec = << >>
    /\ outcome = "idle"
    /\ result = None
    /\ ParserIdle
    /\ ViewsIdle
    /\ NoThreads
    /\ NoMealTypes

NextGoal == UserAimDetailUpdate \/ TargetDetailRetrieve

SpecGoal == InitGoal /\ [][NextGoal]_vars

\* ------------------------------------------------------------------------
\* Python string operations used by the nutrient mapper
\* ------------------------------------------------------------------------
\* A string is a sequence of one-character strings.
\* the substrings the rules of _extract_nutrition_data look for
kw ==
    [calorie |-> <<"c", "a", "l", "o", "r", "i", "e">>,
     energy |-> <<"e", "n", "e", "r", "g", "y">>,
     protein |-> <<"p", "r", "o", "t", "e", "i", "n">>,
     carbohydrate |-> <<"c", "a", "r", "b", "o", "h", "y", "d", "r", "a", "t", "e">>,
     carb |-> <<"c", "a", "r", "b">>,
     net |-> <<"n", "e", "t">>,
     fiber |-> <<"f", "i", "b", "e", "r">>,
     fat |-> <<"f", "a", "t">>,
     saturated |-> <<"s", "a", "t", "u", "r", "a", "t", "e", "d">>,
     trans |-> <<"t", "r", "a", "n", "s">>,
     monounsaturated |-> <<"m", "o", "n", "o", "u", "n", "s", "a", "t", "u", "r", "a", "t", "e", "d">>,
     polyunsaturated |-> <<"p", "o", "l", "y", "u", "n", "s", "a", "t", "u", "r", "a", "t", "e", "d">>,
     fibre |-> <<"f", "i", "b", "r", "e">>,
     sugar |-> <<"s", "u", "g", "a", "r">>,
     cholesterol |-> <<"c", "h", "o", "l", "e", "s", "t", "e", "r", "o", "l">>,
     sodium |-> <<"s", "o", "d", "i", "u", "m">>,
     vitamin_a |-> <<"v", "i", "t", "a", "m", "i", "n", " ", "a">>,
     vitamin_c |-> <<"v", "i", "t", "a", "m", "i", "n", " ", "c">>,
     vitamin_d |-> <<"v", "i", "t", "a", "m", "i", "n", " ", "d">>,
     vitamin_e |-> <<"v", "i", "t", "a", "m", "i", "n", " ", "e">>,
     vitamin_k |-> <<"v", "i", "t", "a", "m", "i", "n", " ", "k">>,
     thiamin |-> <<"t", "h", "i", "a", "m", "i", "n">>,
     vitamin_b1 |-> <<"v", "i", "t", "a", "m", "i", "n", " ", "b", "1">>,
     riboflavin |-> <<"r", "i", "b", "o", "f", "l", "a", "v", "i", "n">>,
     vitamin_b2 |-> <<"v", "i", "t", "a", "m", "i", "n", " ", "b", "2">>,
     niacin |-> <<"n", "i", "a", "c", "i", "n">>,
     vitamin_b3 |-> <<"v", "i", "t", "a", "m", "i", "n", " ", "b", "3">>,
     vitamin_b6 |-> <<"v", "i", "t", "a", "m", "i", "n", " ", "b", "6">>,
     folate |-> <<"f", "o", "l", "a", "t", "e">>,
     folic_acid |-> <<"f", "o", "l", "i", "c", " ", "a", "c", "i", "d">>,
     vitamin_b9 |-> <<"v", "i", "t", "a", "m", "i", "n", " ", "b", "9">>,
     vitamin_b12 |-> <<"v", "i", "t", "a", "m", "i", "n", " ", "b", "1", "2">>,
     cobalamin |-> <<"c", "o", "b", "a", "l", "a", "m", "i", "n">>,
     calcium |-> <<"c", "a", "l", "c", "i", "u", "m">>,
     iron |-> <<"i", "r", "o", "n">>,
     magnesium |-> <<"m", "a", "g", "n", "e", "s", "i", "u", "m">>,
     phosphorus |-> <<"p", "h", "o", "s", "p", "h", "o", "r", "u", "s">>,
     potassium |-> <<"p", "o", "t", "a", "s", "s", "i", "u", "m">>,
     zinc |-> <<"z", "i", "n", "c">>,
     copper |-> <<"c", "o", "p", "p", "e", "r">>,
     manganese |-> <<"m", "a", "n", "g", "a", "n", "e", "s", "e">>,
     selenium |-> <<"s", "e", "l", "e", "n", "i", "u", "m">>]

\* nutrient names as a provider sends them
nm ==
    [Calories |-> <<"C", "a", "l", "o", "r", "i", "e", "s">>,
     Protein |-> <<"P", "r", "o", "t", "e", "i", "n">>,
     Saturated_Fat |-> <<"S", "a", "t", "u", "r", "a", "t", "e", "d", " ", "F", "a", "t">>,
     Total_Fat |-> <<"T", "o", "t", "a", "l", " ", "F", "a", "t">>,
     Carbohydrates |-> <<"C", "a", "r", "b", "o", "h", "y", "d", "r", "a", "t", "e", "s">>,
     Net_Carbohydrates |-> <<"N", "e", "t", " ", "C", "a", "r", "b", "o", "h", "y", "d", "r", "a", "t", "e", "s">>,
     Caffeine |-> <<"C", "a", "f", "f", "e", "i", "n", "e">>,
     Calories_from_Saturated_Fat |-> <<"C", "a", "l", "o", "r", "i", "e", "s", " ", "f", "r", "o", "m", " ", "S", "a", "t", "u", "r", "a", "t", "e", "d", " ", "F", "a", "t">>,
     Iron |-> <<"I", "r", "o", "n">>,
     Dietary_Fiber |-> <<"D", "i", "e", "t", "a", "r", "y", " ", "F", "i", "b", "e", "r">>,
     Vitamin_C |-> <<"V", "i", "t", "a", "m", "i", "n", " ", "C">>,
     SUGAR |-> <<"S", "U", "G", "A", "R">>,
     Monounsaturated_Fat |-> <<"M", "o", "n", "o", "u", "n", "s", "a", "t", "u", "r", "a", "t", "e", "d", " ", "F", "a", "t">>,
     Polyunsaturated_Fat |-> <<"P", "o", "l", "y", "u", "n", "s", "a", "t", "u", "r", "a", "t", "e", "d", " ", "F", "a", "t">>,
     Trans_Fat |-> <<"T", "r", "a", "n", "s", " ", "F", "a", "t">>,
     Vitamin_B12 |-> <<"V", "i", "t", "a", "m", "i", "n", " ", "B", "1", "2">>,
     Vitamin_B1 |-> <<"V", "i", "t", "a", "m", "i", "n", " ", "B", "1">>,
     thiamin |-> <<"t", "h", "i", "a", "m", "i", "n">>,
     cobalamin |-> <<"c", "o", "b", "a", "l", "a", "m", "i", "n">>,
     folic_acid |-> <<"f", "o", "l", "i", "c", " ", "a", "c", "i", "d">>]

lower_char(c) ==
    CASE c = "A" -> "a"
      [] c = "B" -> "b"
      [] c = "C" -> "c"
      [] c = "D" -> "d"
      [] c = "E" -> "e"
      [] c = "F" -> "f"
      [] c = "G" -> "g"
      [] c = "H" -> "h"
      [] c = "I" -> "i"
      [] c = "J" -> "j"
      [] c = "K" -> "k"
      [] c = "L" -> "l"
      [] c = "M" -> "m"
      [] c = "N" -> "n"
      [] c = "O" -> "o"
      [] c = "P" -> "p"
      [] c = "Q" -> "q"
      [] c = "R" -> "r"
      [] c = "S" -> "s"
      [] c = "T" -> "t"
      [] c = "U" -> "u"
      [] c = "V" -> "v"
      [] c = "W" -> "w"
      [] c = "X" -> "x"
      [] c = "Y" -> "y"
      [] c = "Z" -> "z"
      [] OTHER -> c

\* str.lower()
lower(s) == [i \in 1 .. Len(s) |-> lower_char(s[i])]

\* sub in s
In(sub, s) ==
    \E i \in 1 .. (Len(s) - Len(sub) + 1) : SubSeq(s, i, i + Len(sub) - 1) = sub

Digits == {"0", "1", "2", "3", "4", "5", "6", "7", "8", "9"}

digit(c) ==
    CASE c = "0" -> 0 [] c = "1" -> 1 [] c = "2" -> 2 [] c = "3" -> 3 [] c = "4" -> 4
      [] c = "5" -> 5 [] c = "6" -> 6 [] c = "7" -> 7 [] c = "8" -> 8 [] c = "9" -> 9

RECURSIVE digits_value(_)
digits_value(s) ==
    IF s = << >> THEN 0
    ELSE 10 * digits_value(SubSeq(s, 1, Len(s) - 1)) + digit(s[Len(s)])

\* JSON values of an entry: a key may be missing, null, a string or a number
\* (a number n is held in thousandths)
Missing == [tag |-> "missing"]
Null == [tag |-> "null"]
Str(s) == [tag |-> "str", s |-> s]
Num(n) == [tag |-> "num", n |-> n]

FloatError == [ok |-> FALSE]
Float(n) == [ok |-> TRUE, n |-> n]

\* float(s) of a string, in thousandths: [-]digits[.digits] with at most three
\* decimals parses, every other string of the model raises ValueError
float_str(s) ==
    LET neg == s # << >> /\ s[1] = "-"
        body == IF neg THEN SubSeq(s, 2, Len(s)) ELSE s
        dots == {i \in 1 .. Len(body) : body[i] = "."}
        dot == IF dots = {} THEN Len(body) + 1 ELSE CHOOSE i \in dots : TRUE
        ip == SubSeq(body, 1, dot - 1)
        fp == SubSeq(body, dot + 1, Len(body))
        pad == IF Len(fp) = 0 THEN 1000 ELSE IF Len(fp) = 1 THEN 100
               ELSE IF Len(fp) = 2 THEN 10 ELSE 1
        wellformed ==
            /\ Cardinality(dots) <= 1
            /\ Len(ip) + Len(fp) >= 1
            /\ Len(fp) <= 3
            /\ \A i \in 1 .. Len(ip) : ip[i] \in Digits
            /\ \A i \in 1 .. Len(fp) : fp[i] \in Digits
        magnitude == 1000 * digits_value(ip) + (IF Len(fp) = 0 THEN 0 ELSE pad * digits_value(fp))
    IN  IF ~wellformed THEN FloatError
        ELSE Float(IF neg THEN 0 - magnitude ELSE magnitude)

\* float(v) of a JSON value: TypeError for null, ValueError for a bad string
float(v) ==
    IF v.tag = "num" THEN Float(v.n)
    ELSE IF v.tag = "str" THEN float_str(v.s)
    ELSE FloatError

\* dict.get(key, default): the default stands in for a missing key only
get(v, default) == IF v.tag = "missing" THEN default ELSE v

\* round(x, 2) of an amount held in thousandths, in thousandths again
round2(n) == 10 * round(n, 10)

\* ------------------------------------------------------------------------
\* food/services/spoonacular_service.py: _extract_nutrition_data
\* ------------------------------------------------------------------------
MacroFields ==
    {"calories", "protein", "carbohydrates", "fats", "fiber", "sugar",
     "saturated_fat", "trans_fat", "cholesterol", "sodium"}

VitaminFields ==
    {"vitamin_a", "vitamin_c", "vitamin_d", "vitamin_e", "vitamin_k", "thiamin",
     "riboflavin", "niacin", "vitamin_b6", "folate", "vitamin_b12"}

MineralFields ==
    {"calcium", "iron", "magnesium", "phosphorus", "potassium", "zinc", "copper",
     "manganese", "selenium"}

Fields == MacroFields \cup VitaminFields \cup MineralFields

\* the branch taken assigns nothing
NoField == "-"

\* the accumulators as initialised: every field 0.0
ZeroRecordSugarOne == [f \in Fields |-> IF f = "sugar" THEN 1000 ELSE 0]

ZeroRecord == [f \in Fields |-> 0]

carbohydrate_field_unguarded(name) == "carbohydrates"

\* inside the carbohydrate branch
carbohydrate_field(name) ==
    IF ~In(kw.net, name) /\ ~In(kw.fiber, name) THEN "carbohydrates" ELSE NoField

fat_field_plain_first(name) ==
    IF ~In(kw.monounsaturated, name) /\ ~In(kw.polyunsaturated, name) THEN "fats"
    ELSE IF In(kw.saturated, name) THEN "saturated_fat"
    ELSE IF In(kw.trans, name) THEN "trans_fat"
    ELSE NoField

\* inside the fat branch
fat_field(name) ==
    IF In(kw.saturated, name) THEN "saturated_fat"
    ELSE IF In(kw.trans, name) THEN "trans_fat"
    ELSE IF ~In(kw.monounsaturated, name) /\ ~In(kw.polyunsaturated, name) THEN "fats"
    ELSE NoField

\* the vitamin branches of the chain
vitamin_field(name) ==
    IF In(kw.vitamin_a, name) \/ In(kw.vitamin_a, name) THEN "vitamin_a"
    ELSE IF In(kw.vitamin_c, name) THEN "vitamin_c"
    ELSE IF In(kw.vitamin_d, name) THEN "vitamin_d"
    ELSE IF In(kw.vitamin_e, name) THEN "vitamin_e"
    ELSE IF In(kw.vitamin_k, name) THEN "vitamin_k"
    ELSE IF In(kw.thiamin, name) \/ In(kw.vitamin_b1, name) THEN "thiamin"
    ELSE IF In(kw.riboflavin, name) \/ In(kw.vitamin_b2, name) THEN "riboflavin"
    ELSE IF In(kw.niacin, name) \/ In(kw.vitamin_b3, name) THEN "niacin"
    ELSE IF In(kw.vitamin_b6, name) THEN "vitamin_b6"
    ELSE IF In(kw.folate, name) \/ In(kw.folic_acid, name) \/ In(kw.vitamin_b9, name)
        THEN "folate"
    ELSE IF In(kw.vitamin_b12, name) \/ In(kw.cobalamin, name) THEN "vitamin_b12"
    ELSE NoField

\* the mineral branches of the chain
mineral_field(name) ==
    IF In(kw.calcium, name) THEN "calcium"
    ELSE IF In(kw.iron, name) THEN "iron"
    ELSE IF In(kw.magnesium, name) THEN "magnesium"
    ELSE IF In(kw.phosphorus, name) THEN "phosphorus"
    ELSE IF In(kw.potassium, name) THEN "potassium"
    ELSE IF In(kw.zinc, name) THEN "zinc"
    ELSE IF In(kw.copper, name) THEN "copper"
    ELSE IF In(kw.manganese, name) THEN "manganese"
    ELSE IF In(kw.selenium, name) THEN "selenium"
    ELSE NoField

\* the if / elif chain of the loop body: the accumulator the entry is assigned to
nutrient_field(name) ==
    IF In(kw.calorie, name) \/ In(kw.energy, name) THEN "calories"
    ELSE IF In(kw.protein, name) THEN "protein"
    ELSE IF In(kw.carbohydrate, name) \/ In(kw.carb, name) THEN carbohydrate_field(name)
    ELSE IF In(kw.fat, name) THEN fat_field(name)
    ELSE IF In(kw.fiber, name) \/ In(kw.fibre, name) THEN "fiber"
    ELSE IF In(kw.sugar, name) THEN "sugar"
    ELSE IF In(kw.cholesterol, name) THEN "cholesterol"
    ELSE IF In(kw.sodium, name) THEN "sodium"
    ELSE IF vitamin_field(name) # NoField THEN vitamin_field(name)
    ELSE mineral_field(name)

\* the entries an analysis call may receive
EntryNames ==
    {nm.Calories, nm.Protein, nm.Saturated_Fat, nm.Total_Fat, nm.Carbohydrates,
     nm.Net_Carbohydrates, nm.Caffeine, nm.Calories_from_Saturated_Fat, nm.Iron,
     nm.Dietary_Fiber, nm.Vitamin_C, nm.SUGAR, nm.Monounsaturated_Fat,
     nm.Polyunsaturated_Fat, nm.Trans_Fat, nm.Vitamin_B12, nm.Vitamin_B1, nm.thiamin,
     nm.cobalamin, nm.folic_acid}

EntryDomain ==
    {[name |-> Str(n), amount |-> Num(2000)] : n \in EntryNames}
    \cup {[name |-> Str(n), amount |-> Num(10504)] :
            n \in {nm.Calories_from_Saturated_Fat, nm.Total_Fat, nm.Saturated_Fat}}
    \cup {[name |-> Str(nm.Protein), amount |-> a] :
            a \in {Missing, Null, Str(<<"5">>), Str(<<"2", ".", "5">>),
                   Str(<<"a", "b", "c">>), Num(0 - 1500)}}
    \cup {[name |-> n, amount |-> Num(2000)] : n \in {Missing, Null}}

RECURSIVE Lists(_)
Lists(n) ==
    IF n = 0 THEN {<< >>}
    ELSE LET shorter == Lists(n - 1)
         IN  shorter \cup {Append(l, e) : l \in {x \in shorter : Len(x) = n - 1},
                                           e \in EntryDomain}

\* the nutrients of the specification's worked example, in every order
ExampleEntries ==
    {[name |-> Str(nm.Calories), amount |-> Num(250000)],
     [name |-> Str(nm.Protein), amount |-> Str(<<"5">>)],
     [name |-> Str(nm.Saturated_Fat), amount |-> Num(2000)],
     [name |-> Str(nm.Total_Fat), amount |-> Num(10000)]}

ExampleLists ==
    {l \in [1 .. 4 -> ExampleEntries] : \A i, j \in 1 .. 4 : l[i] = l[j] => i = j}

\* a call of _extract_nutrition_data: the locals are initialised
ExtractCall ==
    /\ outcome = "idle"
    /\ nutrients' \in Lists(MaxEntries) \cup ExampleLists
    /\ idx' = 0
    /\ rec' = ZeroRecord
    /\ outcome' = "running"
    /\ result' = None
    /\ UNCHANGED <<obj, response>>
    /\ UNCHANGED <<parserVars, mealVars, viewVars, threadVars>>

\* one iteration of `for nutrient in nutrients`
ExtractLoop ==
    /\ outcome = "running"
    /\ idx < Len(nutrients)
    /\ LET nutrient == nutrients[idx + 1]
           raw_name == get(nutrient.name, Str(<< >>))
           amount == float(get(nutrient.amount, Num(0)))
       IN  IF raw_name.tag # "str"
           THEN \* None.lower(): AttributeError, which the except clause lets through
                /\ outcome' = "AttributeError"
                /\ UNCHANGED <<idx, rec>>
           ELSE IF ~amount.ok
           THEN \* float() raised: caught and raised again as ValueError
                /\ outcome' = "ValueError"
                /\ UNCHANGED <<idx, rec>>
           ELSE LET field == nutrient_field(lower(raw_name.s))
                IN  /\ rec' = IF field = NoField THEN rec
                              ELSE [rec EXCEPT ![field] = amount.n]
                    /\ idx' = idx + 1
                    /\ UNCHANGED outcome
    /\ UNCHANGED <<obj, response, nutrients, result>>
    /\ UNCHANGED <<parserVars, mealVars, viewVars, threadVars>>

\* the loop is over: every accumulator is rounded to 2 decimals and returned
ExtractReturn ==
    /\ outcome = "running"
    /\ idx = Len(nutrients)
    /\ result' = Some([f \in Fields |-> round2(rec[f])])
    /\ outcome' = "returned"
    /\ UNCHANGED <<obj, response, nutrients, idx, rec>>
    /\ UNCHANGED <<parserVars, mealVars, viewVars, threadVars>>

InitExtract ==
    /\ obj = NewUser
    /\ response = [kind |-> "none"]
    /\ nutrients = << >>
    /\ idx = 0
    /\ rec = << >>
    /\ outcome = "idle"
    /\ result = None
    /\ ParserIdle
    /\ ViewsIdle
    /\ NoThreads
    /\ NoMealTypes

NextExtract == ExtractCall \/ ExtractLoop \/ ExtractReturn

SpecExtract == InitExtract /\ [][NextExtract]_vars

\* ------------------------------------------------------------------------
\* food/views.py: extract_nutrition_data
\* ------------------------------------------------------------------------
\* the keys the returned dictionary is read from
v_calories == <<"c", "a", "l", "o", "r", "i", "e", "s">>
v_saturated_fat == <<"s", "a", "t", "u", "r", "a", "t", "e", "d", " ", "f", "a", "t">>
v_trans_fat == <<"t", "r", "a", "n", "s", " ", "f", "a", "t">>
v_carbohydrates == <<"c", "a", "r", "b", "o", "h", "y", "d", "r", "a", "t", "e", "s">>

ViewFields ==
    {"calories", "protein", "fat", "saturated_fat", "trans_fat", "carbohydrates",
     "fiber", "sugar", "cholesterol", "sodium", "calcium", "iron", "potassium",
     "zinc", "vitaminA", "vitaminC", "vitaminD", "vitaminE", "vitaminK"}

\* the name looked up for a field of the returned dictionary
view_key(f) ==
    CASE f = "calories" -> v_calories
      [] f = "protein" -> kw.protein
      [] f = "fat" -> kw.fat
      [] f = "saturated_fat" -> v_saturated_fat
      [] f = "trans_fat" -> v_trans_fat
      [] f = "carbohydrates" -> v_carbohydrates
      [] f = "fiber" -> kw.fiber
      [] f = "sugar" -> kw.sugar
      [] f = "cholesterol" -> kw.cholesterol
      [] f = "sodium" -> kw.sodium
      [] f = "calcium" -> kw.calcium
      [] f = "iron" -> kw.iron
      [] f = "potassium" -> kw.potassium
      [] f = "zinc" -> kw.zinc
      [] f = "vitaminA" -> kw.vitamin_a
      [] f = "vitaminC" -> kw.vitamin_c
      [] f = "vitaminD" -> kw.vitamin_d
      [] f = "vitaminE" -> kw.vitamin_e
      [] f = "vitaminK" -> kw.vitamin_k

\* `amount or 0`: None, 0 and '' give 0
or_zero(v) ==
    IF v.tag = "null" \/ (v.tag = "num" /\ v.n = 0) \/ (v.tag = "str" /\ v.s = << >>)
    THEN Num(0) ELSE v

setitem_keep_first(m, k, v) ==
    [x \in DOMAIN m \cup {k} |-> IF x \in DOMAIN m THEN m[x] ELSE v]

\* m[k] = v on a dictionary
setitem(m, k, v) == [x \in DOMAIN m \cup {k} |-> IF x = k THEN v ELSE m[x]]

\* m.get(k, default)
dict_get(m, k, default) == IF k \in DOMAIN m THEN m[k] ELSE default

\* the loop that fills nutrient_map from the entries ns, or the exception that
\* leaves it
RECURSIVE build_nutrient_map(_, _)
build_nutrient_map(ns, m) ==
    IF ns = << >> THEN [error |-> "", map |-> m]
    ELSE LET nutrient == Head(ns)
             raw_name == get(nutrient.name, Str(<< >>))
             amount == float(or_zero(get(nutrient.amount, Num(0))))
         IN  IF raw_name.tag # "str" THEN [error |-> "AttributeError"]
             ELSE IF ~amount.ok THEN [error |-> "ValueError"]
             ELSE build_nutrient_map(Tail(ns), setitem(m, lower(raw_name.s), amount.n))

\* a call of extract_nutrition_data
ViewExtract ==
    /\ outcome = "idle"
    /\ nutrients' \in Lists(MaxEntries) \cup ExampleLists
    /\ LET built == build_nutrient_map(nutrients', << >>)
       IN  IF built.error # ""
           THEN /\ outcome' = "view_" \o built.error
                /\ result' = None
           ELSE /\ outcome' = "view_returned"
                /\ result' = Some([f \in ViewFields |-> dict_get(built.map, view_key(f), 0)])
    /\ UNCHANGED <<obj, response, idx, rec>>
    /\ UNCHANGED <<parserVars, mealVars, viewVars, threadVars>>

\* the two nutrient mappers of the repository
NextMappers == ExtractCall \/ ExtractLoop \/ ExtractReturn \/ ViewExtract

SpecMappers == InitExtract /\ [][NextMappers]_vars

\* ------------------------------------------------------------------------
\* food/services/ingredient_parser.py: IngredientParser
\* ------------------------------------------------------------------------
\* the character U+2022, the bullet
U2022 == "u2022"

\* the characters str.split(), str.strip() and \s take for whitespace
IsSpace(c) == c \in {" ", "\n", "\t"}

RECURSIVE lstrip(_)
lstrip(s) == IF s # << >> /\ IsSpace(Head(s)) THEN lstrip(Tail(s)) ELSE s

RECURSIVE rstrip(_)
rstrip(s) ==
    IF s # << >> /\ IsSpace(s[Len(s)]) THEN rstrip(SubSeq(s, 1, Len(s) - 1)) ELSE s

\* s.strip()
strip(s) == rstrip(lstrip(s))

\* the least position of s that holds whitespace, Len(s) + 1 when there is none
first_space(s) ==
    IF \E i \in 1 .. Len(s) : IsSpace(s[i])
    THEN CHOOSE i \in 1 .. Len(s) :
            IsSpace(s[i]) /\ \A j \in 1 .. i - 1 : ~IsSpace(s[j])
    ELSE Len(s) + 1

\* s.find(d), counted from 1: Len(s) + 1 when d is not in s
first_of(s, d) ==
    IF \E i \in 1 .. Len(s) : s[i] = d
    THEN CHOOSE i \in 1 .. Len(s) : s[i] = d /\ \A j \in 1 .. i - 1 : s[j] # d
    ELSE Len(s) + 1

\* s.split(d) for a one-character delimiter d
RECURSIVE split(_, _)
split(s, d) ==
    LET i == first_of(s, d)
    IN  IF i > Len(s) THEN << s >>
        ELSE << SubSeq(s, 1, i - 1) >> \o split(SubSeq(s, i + 1, Len(s)), d)

\* s.split(): the words between runs of whitespace
RECURSIVE split_whitespace(_)
split_whitespace(s) ==
    LET t == lstrip(s)
        n == first_space(t)
    IN  IF t = << >> THEN << >>
        ELSE << SubSeq(t, 1, n - 1) >> \o split_whitespace(SubSeq(t, n, Len(t)))

\* sep.join(parts)
RECURSIVE join(_, _)
join(sep, parts) ==
    IF parts = << >> THEN << >>
    ELSE IF Len(parts) = 1 THEN parts[1]
    ELSE parts[1] \o sep \o join(sep, Tail(parts))

IsLeading_digits(c) == c \in Digits

\* the class [\d\.\-\s]
IsLeading(c) == c \in Digits \cup {".", "-"} \/ IsSpace(c)

\* the class [•\-\*]
IsBullet(c) == c \in {U2022, "-", "*"}

\* re.sub(r'^[\d\.\-\s]+', '', line)
RECURSIVE sub_leading(_)
sub_leading(line) ==
    IF line # << >> /\ IsLeading(Head(line)) THEN sub_leading(Tail(line)) ELSE line

\* re.sub(r'[•\-\*]\s*', '', line)
RECURSIVE sub_bullets(_)
sub_bullets(line) ==
    IF line = << >> THEN << >>
    ELSE IF IsBullet(Head(line)) THEN sub_bullets(lstrip(Tail(line)))
    ELSE << Head(line) >> \o sub_bullets(Tail(line))

\* `if x:` on an Optional[str]: neither None nor ''
Truthy(x) == x # None /\ x[1] # << >>

\* IngredientParser._normalize_line: None, or the cleaned line
_normalize_line(line) ==
    LET collapsed == join(<< " " >>, split_whitespace(line))
    IN  IF collapsed = << >> \/ Len(strip(collapsed)) < 3 THEN None
        ELSE IF Len(collapsed) < 5 THEN None
        ELSE LET cleaned == strip(sub_bullets(sub_leading(collapsed)))
             IN  IF Len(cleaned) < 3 THEN None ELSE Some(cleaned)

\* [n for n in (_normalize_line(part) for part in parts) if n]
normalized_parts(parts) ==
    LET normalized == [i \in 1 .. Len(parts) |-> _normalize_line(parts[i])]
        kept == SelectSeq(normalized, Truthy)
    IN  [i \in 1 .. Len(kept) |-> kept[i][1]]

delimiters_dash_first == << "-", ",", ";", "|", "\n", U2022 >>

delimiters == << ",", ";", "|", "\n", U2022, "-" >>

\* the for loop of _split_by_delimiters from the i-th delimiter on, and the
\* whole-text line after it
RECURSIVE split_from(_, _)
split_from(text, i) ==
    IF i > Len(delimiters)
    THEN LET normalized == _normalize_line(text)
         IN  IF Truthy(normalized) THEN << normalized[1] >> ELSE << >>
    ELSE LET normalized == normalized_parts(split(text, delimiters[i]))
         IN  IF first_of(text, delimiters[i]) <= Len(text) /\ Len(normalized) > 1
             THEN normalized
             ELSE split_from(text, i + 1)

\* IngredientParser._split_by_delimiters
_split_by_delimiters(text) == split_from(text, 1)

normalize_text_whole_line(text) ==
    LET lines == normalized_parts(split(text, "\n"))
    IN  IF Len(lines) < 2 THEN << text >> ELSE lines

\* IngredientParser.normalize_text
normalize_text(text) ==
    IF text = << >> \/ strip(text) = << >> THEN << >>
    ELSE LET lines == normalized_parts(split(text, "\n"))
         IN  IF Len(lines) < 2 THEN _split_by_delimiters(text) ELSE lines

\* IngredientParser.format_for_spoonacular
format_for_spoonacular(lines) == join(<< "\n" >>, lines)

\* pieces of recipe text as OCR delivers them
Parts ==
    {<<"F", "l", "o", "u", "r">>,
     <<"S", "u", "g", "a", "r">>,
     <<"E", "g", "g", "s">>,
     <<"1", ".", " ", "F", "l", "o", "u", "r">>,
     <<"2", ".", " ", "S", "u", "g", "a", "r">>,
     <<"3", ".", " ", "E", "g", "g", "s">>,
     <<"*", " ", "1", ".", " ", "F", "l", "o", "u", "r">>,
     <<"-", " ", "S", "u", "g", "a", "r">>,
     <<U2022, " ", "E", "g", "g", "s">>,
     <<"a", "b">>,
     <<>>,
     <<"S", "e", "a", "-", "s", "a", "l", "t">>,
     <<"2", " ", "c", "u", "p", "s", " ", "m", "i", "l", "k">>}

\* what stands between two pieces: a newline, a comma and a space, a semicolon, a
\* bar, a space
Separators == {<<"\n">>, <<",", " ">>, <<";">>, <<"|">>, <<" ">>}

\* the texts of up to n pieces, a separator between two pieces
RECURSIVE Texts(_)
Texts(n) ==
    IF n = 1 THEN Parts
    ELSE LET shorter == Texts(n - 1)
         IN  shorter \cup {t \o sep \o part : t \in shorter, sep \in Separators,
                                              part \in Parts}

\* the two texts of the specification's examples
EnumeratedExample == <<"1", ".", " ", "F", "l", "o", "u", "r", "\n", "2", ".", " ", "S", "u", "g", "a", "r", "\n", "3", ".", " ", "E", "g", "g", "s">>
CommaExample == <<"F", "l", "o", "u", "r", ",", " ", "S", "u", "g", "a", "r", ",", " ", "E", "g", "g", "s">>

RawTexts == Texts(MaxParts) \cup {EnumeratedExample, CommaExample}

\* a call of normalize_text
NormalizeText ==
    /\ parser_step = "idle"
    /\ raw_text' \in RawTexts
    /\ ingredient_lines' = normalize_text(raw_text')
    /\ parser_step' = "normalized"
    /\ UNCHANGED formatted
    /\ UNCHANGED <<goalVars, extractVars, mealVars, viewVars, threadVars>>

\* a call of format_for_spoonacular on the lines normalize_text returned
FormatForSpoonacular ==
    /\ parser_step = "normalized"
    /\ formatted' = format_for_spoonacular(ingredient_lines)
    /\ parser_step' = "formatted"
    /\ UNCHANGED <<raw_text, ingredient_lines>>
    /\ UNCHANGED <<goalVars, extractVars, mealVars, viewVars, threadVars>>

InitParser ==
    /\ obj = NewUser
    /\ response = [kind |-> "none"]
    /\ nutrients = << >>
    /\ idx = 0
    /\ rec = << >>
    /\ outcome = "idle"
    /\ result = None
    /\ ParserIdle
    /\ ViewsIdle
    /\ NoThreads
    /\ NoMealTypes

NextParser == NormalizeText \/ FormatForSpoonacular

SpecParser == InitParser /\ [][NextParser]_vars

\* ------------------------------------------------------------------------
\* food/views.py: resolve_meal_type over the MealType table (food/models.py)
\* ------------------------------------------------------------------------
\* the values of MEAL_TYPE_MAPPING and a category outside it
m_Breakfast == <<"B", "r", "e", "a", "k", "f", "a", "s", "t">>
m_Lunch == <<"L", "u", "n", "c", "h">>
m_Snacks == <<"S", "n", "a", "c", "k", "s">>
m_Dinner == <<"D", "i", "n", "n", "e", "r">>
m_Brunch == <<"B", "r", "u", "n", "c", "h">>

\* the keys of MEAL_TYPE_MAPPING
mk_breakfast == <<"b", "r", "e", "a", "k", "f", "a", "s", "t">>
mk_lunch == <<"l", "u", "n", "c", "h">>
mk_snacks == <<"s", "n", "a", "c", "k", "s">>
mk_snack == <<"s", "n", "a", "c", "k">>
mk_dinner == <<"d", "i", "n", "n", "e", "r">>

MEAL_TYPE_MAPPING_get_no_synonym(key, default) == default

\* MEAL_TYPE_MAPPING.get(key, default)
MEAL_TYPE_MAPPING_get(key, default) ==
    CASE key = mk_breakfast -> m_Breakfast
      [] key = mk_lunch -> m_Lunch
      [] key = mk_snacks -> m_Snacks
      [] key = mk_snack -> m_Snacks
      [] key = mk_dinner -> m_Dinner
      [] OTHER -> default

\* MealType.objects.get(name__iexact=name): the row, or the exception
objects_get_name_iexact(table, name) ==
    LET rows == {r \in table : lower(r.name) = lower(name)}
    IN  IF rows = {} THEN [error |-> "DoesNotExist"]
        ELSE IF Cardinality(rows) > 1 THEN [error |-> "MultipleObjectsReturned"]
        ELSE [error |-> "", row |-> CHOOSE r \in rows : TRUE]

\* MealType.objects.get(id=id); the primary key is unique
objects_get_id(table, id) ==
    LET rows == {r \in table : r.id = id}
    IN  IF rows = {} THEN [error |-> "DoesNotExist"]
        ELSE [error |-> "", row |-> CHOOSE r \in rows : TRUE]

\* `if meal_type_name:` and `if meal_type_id:`: neither None, nor '', nor 0
truthy(v) ==
    /\ v.tag # "null"
    /\ v.tag = "str" => v.s # << >>
    /\ v.tag = "num" => v.n # 0

\* the second half of resolve_meal_type: the lookup by ID
resolve_by_id(table, meal_type_id) ==
    IF truthy(meal_type_id)
    THEN LET found == objects_get_id(table, meal_type_id.n)
         IN  IF found.error = "" THEN [error |-> "", meal_type |-> Some(found.row)]
             ELSE [error |-> "", meal_type |-> None]
    ELSE [error |-> "", meal_type |-> None]

resolve_meal_type_id_first(table, meal_type_id, meal_type_name) ==
    IF truthy(meal_type_id) /\ objects_get_id(table, meal_type_id.n).error = ""
    THEN resolve_by_id(table, meal_type_id)
    ELSE LET found == objects_get_name_iexact(table, meal_type_name.s)
         IN  IF truthy(meal_type_name) /\ found.error = ""
             THEN [error |-> "", meal_type |-> Some(found.row)]
             ELSE [error |-> "", meal_type |-> None]

\* resolve_meal_type(meal_type_id, meal_type_name) on the rows of the table: the
\* MealType returned (None when there is none), or the exception that leaves it
resolve_meal_type(table, meal_type_id, meal_type_name) ==
    IF truthy(meal_type_name)
    THEN LET meal_type_name_lower == strip(lower(meal_type_name.s))
             backend_meal_type_name ==
                 MEAL_TYPE_MAPPING_get(meal_type_name_lower, meal_type_name.s)
             found == objects_get_name_iexact(table, backend_meal_type_name)
         IN  IF found.error = "" THEN [error |-> "", meal_type |-> Some(found.row)]
             ELSE IF found.error = "MultipleObjectsReturned"
                  THEN [error |-> "MultipleObjectsReturned", meal_type |-> None]
             ELSE resolve_by_id(table, meal_type_id)
    ELSE resolve_by_id(table, meal_type_id)

\* names a MealType row may carry
RowNames == {m_Breakfast, m_Lunch, m_Snacks, m_Dinner, m_Brunch}

\* the tables of up to MaxRows rows, the primary keys 1, 2, ... in order of creation
Tables ==
    UNION {{{[id |-> i, name |-> f[i]] : i \in 1 .. n} : f \in [1 .. n -> RowNames]} :
              n \in 0 .. MaxRows}

\* the four categories of the application
CanonicalTable ==
    {[id |-> 1, name |-> m_Breakfast], [id |-> 2, name |-> m_Lunch],
     [id |-> 3, name |-> m_Dinner], [id |-> 4, name |-> m_Snacks]}

\* the arguments of a call
MealTypeNames ==
    {Null, Str(<< >>), Str(mk_breakfast), Str(<<" ", "L", "u", "n", "c", "h", " ">>), Str(mk_snack),
     Str(<<"S", "N", "A", "C", "K", "S">>), Str(m_Dinner), Str(m_Brunch), Str(<<" ", "B", "r", "u", "n", "c", "h", " ">>),
     Str(<<"L", "a", "t", "e", " ", "D", "i", "n", "n", "e", "r">>)}

MealTypeIds == {Null, Num(0), Num(1), Num(2), Num(5)}

\* a call of resolve_meal_type
ResolveMealType ==
    /\ \E meal_type_id \in MealTypeIds, meal_type_name \in MealTypeNames :
          LET returned == resolve_meal_type(meal_types, meal_type_id, meal_type_name)
          IN  resolve_call' =
                  Some([meal_type_id |-> meal_type_id,
                        meal_type_name |-> meal_type_name,
                        error |-> returned.error,
                        meal_type |-> returned.meal_type])
    /\ UNCHANGED meal_types
    /\ UNCHANGED <<goalVars, extractVars, parserVars, viewVars, threadVars>>

InitMeal ==
    /\ obj = NewUser
    /\ response = [kind |-> "none"]
    /\ nutrients = << >>
    /\ idx = 0
    /\ rec = << >>
    /\ outcome = "idle"
    /\ result = None
    /\ ParserIdle
    /\ ViewsIdle
    /\ NoThreads
    /\ meal_types \in Tables \cup {CanonicalTable}
    /\ resolve_call = None

NextMeal == ResolveMealType

SpecMeal == InitMeal /\ [][NextMeal]_vars

\* ------------------------------------------------------------------------
\* food/views.py: get_spoonacular_data, get_spoonacular_recipe_by_id;
\* food/services/spoonacular_service.py: analyze_recipe_nutrition
\* ------------------------------------------------------------------------
\* what the HTTP request of an adapter meets: the transport (the request goes
\* through, times out, or fails to connect), the status of the reply and its body
Transports == {"ok", "Timeout", "ConnectionError"}

Statuses == {200, 401, 402, 500}

\* nutrient lists of a reply: well-formed, a non-numeric amount, a null amount, a
\* null name
ReplyNutrients ==
    {<< [name |-> Str(nm.Calories), amount |-> Num(2000)] >>,
     << [name |-> Str(nm.Protein), amount |-> Str(<<"a", "b", "c">>)] >>,
     << [name |-> Str(nm.Protein), amount |-> Null] >>,
     << [name |-> Null, amount |-> Num(2000)] >>}

\* bodies: not JSON; JSON with an empty "results" (search only); without
\* "nutrition"; with an empty "nutrients"; with nutrients
Bodies ==
    {[kind |-> k, nutrients |-> << >>] :
        k \in {"invalid_json", "empty_results", "no_nutrition", "empty_nutrients"}}
    \cup {[kind |-> "nutrients", nutrients |-> l] : l \in ReplyNutrients}

Replies ==
    {[transport |-> t, status |-> st, body |-> b] :
        t \in Transports, st \in Statuses, b \in Bodies}

\* the exception SpoonacularService._extract_nutrition_data ends in on the
\* entries ns, "" when it returns
RECURSIVE service_extract_error(_)
service_extract_error(ns) ==
    IF ns = << >> THEN ""
    ELSE LET nutrient == Head(ns)
             raw_name == get(nutrient.name, Str(<< >>))
             amount == float(get(nutrient.amount, Num(0)))
         IN  IF raw_name.tag # "str" THEN "AttributeError"
             ELSE IF ~amount.ok THEN "ValueError"
             ELSE service_extract_error(Tail(ns))

\* the steps get_spoonacular_data and get_spoonacular_recipe_by_id share, from
\* the request to extract_nutrition_data; `search` tells the first from the second
views_adapter(reply, search) ==
    IF reply.transport # "ok" THEN {"SpoonacularAPIError"}
    ELSE IF reply.status # 200 THEN {"SpoonacularAPIError"}
    ELSE IF reply.body.kind = "invalid_json" THEN {"SpoonacularDataError"}
    ELSE IF search /\ reply.body.kind = "empty_results" THEN {"SpoonacularDataError"}
    ELSE IF reply.body.kind \in {"empty_results", "no_nutrition", "empty_nutrients"}
         THEN {"SpoonacularDataError"}
    ELSE LET built == build_nutrient_map(reply.body.nutrients, << >>)
         IN  IF built.error # "" THEN {built.error} ELSE {"returned"}

get_spoonacular_data(reply) == views_adapter(reply, TRUE)

get_spoonacular_recipe_by_id(reply) == views_adapter(reply, FALSE)

\* SpoonacularService.analyze_recipe_nutrition: the outcomes of a call.  An
\* invalid JSON body raises requests' JSONDecodeError, a RequestException in the
\* current releases of requests (wrapped into Exception) and a plain ValueError
\* in the older ones (raised again as it is).
analyze_recipe_nutrition(blank, reply) ==
    IF blank THEN {"ValueError"}
    ELSE IF reply.transport # "ok" THEN {"Exception"}
    ELSE IF reply.status # 200 THEN {"Exception"}
    ELSE IF reply.body.kind = "invalid_json" THEN {"Exception", "ValueError"}
    ELSE LET error == service_extract_error(reply.body.nutrients)
         IN  IF error # "" THEN {error} ELSE {"returned"}

GetSpoonacularData ==
    /\ \E reply \in Replies : \E o \in get_spoonacular_data(reply) :
          provider_call' = Some([adapter |-> "get_spoonacular_data", blank |-> FALSE,
                                 reply |-> reply, outcome |-> o])
    /\ UNCHANGED <<grouped, range_response>>
    /\ UNCHANGED <<goalVars, extractVars, parserVars, mealVars, threadVars>>

GetSpoonacularRecipeById ==
    /\ \E reply \in {r \in Replies : r.body.kind # "empty_results"} :
          \E o \in get_spoonacular_recipe_by_id(reply) :
              provider_call' = Some([adapter |-> "get_spoonacular_recipe_by_id",
                                     blank |-> FALSE, reply |-> reply, outcome |-> o])
    /\ UNCHANGED <<grouped, range_response>>
    /\ UNCHANGED <<goalVars, extractVars, parserVars, mealVars, threadVars>>

AnalyzeRecipeNutrition ==
    /\ \E blank \in BOOLEAN : \E reply \in {r \in Replies : r.body.kind # "empty_results"} :
          \E o \in analyze_recipe_nutrition(blank, reply) :
              provider_call' = Some([adapter |-> "analyze_recipe_nutrition",
                                     blank |-> blank, reply |-> reply, outcome |-> o])
    /\ UNCHANGED <<grouped, range_response>>
    /\ UNCHANGED <<goalVars, extractVars, parserVars, mealVars, threadVars>>

InitProvider ==
    /\ obj = NewUser
    /\ response = [kind |-> "none"]
    /\ nutrients = << >>
    /\ idx = 0
    /\ rec = << >>
    /\ outcome = "idle"
    /\ result = None
    /\ ParserIdle
    /\ ViewsIdle
    /\ NoThreads
    /\ NoMealTypes

NextProvider == GetSpoonacularData \/ GetSpoonacularRecipeById \/ AnalyzeRecipeNutrition

SpecProvider == InitProvider /\ [][NextProvider]_vars

\* ------------------------------------------------------------------------
\* food/views.py: group_food_items_by_meal_type
\* ------------------------------------------------------------------------
\* the longest list of food items handed to the grouping
MaxItems == 3

GroupKeys == <<"breakfast", "lunch", "snacks", "dinner">>

\* MEAL_TYPE_GROUPING_MAP.get(key): the group of a lower-cased name, None when
\* the name is not a key
MEAL_TYPE_GROUPING_MAP_get(key) ==
    CASE key = mk_breakfast -> Some("breakfast")
      [] key = mk_lunch -> Some("lunch")
      [] key = mk_snacks -> Some("snacks")
      [] key = mk_snack -> Some("snacks")
      [] key = mk_dinner -> Some("dinner")
      [] OTHER -> None

group_key_dinner_first(item_data) ==
    LET raw == get(item_data.meal_type_name, Null)
        meal_type_name == IF truthy(raw) THEN strip(raw.s) ELSE << >>
    IN  IF meal_type_name = << >> THEN "snacks"
        ELSE LET meal_type_name_lower == lower(meal_type_name)
                 matched_key == MEAL_TYPE_GROUPING_MAP_get(meal_type_name_lower)
             IN  IF matched_key # None THEN matched_key[1]
                 ELSE IF In(mk_dinner, meal_type_name_lower) THEN "dinner"
                 ELSE IF In(mk_breakfast, meal_type_name_lower) THEN "breakfast"
                 ELSE IF In(mk_lunch, meal_type_name_lower) THEN "lunch"
                 ELSE IF In(mk_snack, meal_type_name_lower) THEN "snacks"
                 ELSE "snacks"

\* the body of the loop: the key of the list item_data is appended to
group_key(item_data) ==
    LET raw == get(item_data.meal_type_name, Null)
        meal_type_name == IF truthy(raw) THEN strip(raw.s) ELSE << >>
    IN  IF meal_type_name = << >> THEN "snacks"
        ELSE LET meal_type_name_lower == lower(meal_type_name)
                 matched_key == MEAL_TYPE_GROUPING_MAP_get(meal_type_name_lower)
             IN  IF matched_key # None THEN matched_key[1]
                 ELSE IF In(mk_breakfast, meal_type_name_lower) THEN "breakfast"
                 ELSE IF In(mk_lunch, meal_type_name_lower) THEN "lunch"
                 ELSE IF In(mk_snack, meal_type_name_lower) THEN "snacks"
                 ELSE IF In(mk_dinner, meal_type_name_lower) THEN "dinner"
                 ELSE "snacks"

\* grouped_data[key].append(item_data)
append_item(grouped_data, item_data) ==
    [grouped_data EXCEPT ![group_key(item_data)] = Append(@, item_data)]

EmptyGroups == [k \in {GroupKeys[i] : i \in 1 .. Len(GroupKeys)} |-> << >>]

RECURSIVE group_from(_, _)
group_from(food_items_data, grouped_data) ==
    IF food_items_data = << >> THEN grouped_data
    ELSE group_from(Tail(food_items_data), append_item(grouped_data, Head(food_items_data)))

group_food_items_by_meal_type(food_items_data) == group_from(food_items_data, EmptyGroups)

\* the meal_type_name of a serialized food item: absent, null, empty, blank, a
\* key in any case and padding, a name holding one key or two, a foreign name
ItemMealTypeNames ==
    {Missing, Null, Str(<< >>), Str(<<" ">>),
     Str(<<" ", "B", "r", "e", "a", "k", "f", "a", "s", "t", " ">>), Str(mk_lunch), Str(mk_snack), Str(m_Snacks), Str(m_Dinner),
     Str(m_Brunch), Str(<<"L", "a", "t", "e", " ", "D", "i", "n", "n", "e", "r">>), Str(<<"D", "i", "n", "n", "e", "r", " ", "B", "r", "e", "a", "k", "f", "a", "s", "t">>), Str(<<"S", "n", "a", "c", "k", " ", "L", "u", "n", "c", "h">>),
     Str(<<"D", "i", "n", "n", "e", "r", " ", "S", "n", "a", "c", "k">>)}

\* lists of food items; `id` is the primary key of the item
FoodItems(n) ==
    UNION {[1 .. k -> ItemMealTypeNames] : k \in 0 .. n}

FoodItemsData(n) ==
    {[i \in 1 .. Len(names) |-> [id |-> i, meal_type_name |-> names[i]]] :
        names \in FoodItems(n)}

\* a call of group_food_items_by_meal_type
GroupFoodItems ==
    /\ grouped = None
    /\ \E food_items_data \in FoodItemsData(MaxItems) :
          grouped' = Some([food_items_data |-> food_items_data,
                           grouped_data |-> group_food_items_by_meal_type(food_items_data)])
    /\ UNCHANGED <<provider_call, range_response>>
    /\ UNCHANGED <<goalVars, extractVars, parserVars, mealVars, threadVars>>

InitGroup == InitProvider

NextGroup == GroupFoodItems

SpecGroup == InitGroup /\ [][NextGroup]_vars

\* ------------------------------------------------------------------------
\* Concurrent invocations of the core operations: IngredientParser.normalize_text,
\* SpoonacularService._extract_nutrition_data, group_food_items_by_meal_type and
\* TargetDetailSerializer, each on its own request thread
\* ------------------------------------------------------------------------
\* the number of request threads
MaxThreads == 2

Threads == 1 .. MaxThreads

\* one iteration of `for nutrient in nutrients` on the accumulators acc
extract_entry(acc, nutrient) ==
    LET raw_name == get(nutrient.name, Str(<< >>))
        amount == float(get(nutrient.amount, Num(0)))
    IN  IF raw_name.tag # "str" THEN [error |-> "AttributeError", value |-> acc]
        ELSE IF ~amount.ok THEN [error |-> "ValueError", value |-> acc]
        ELSE LET field == nutrient_field(lower(raw_name.s))
             IN  [error |-> "",
                  value |-> IF field = NoField THEN acc ELSE [acc EXCEPT ![field] = amount.n]]

RECURSIVE extract_from(_, _)
extract_from(ns, acc) ==
    IF ns = << >> THEN [error |-> "", value |-> [f \in Fields |-> round2(acc[f])]]
    ELSE LET step == extract_entry(acc, Head(ns))
         IN  IF step.error # "" THEN step ELSE extract_from(Tail(ns), step.value)

\* SpoonacularService._extract_nutrition_data on the entries ns, run alone
_extract_nutrition_data(ns) == extract_from(ns, ZeroRecord)

\* the process-wide tables the operations read
ProcessTables ==
    [delimiters |-> delimiters,
     MEAL_TYPE_GROUPING_MAP |->
        [k \in {mk_breakfast, mk_lunch, mk_snacks, mk_snack, mk_dinner} |->
            MEAL_TYPE_GROUPING_MAP_get(k)[1]]]

Operations ==
    {"normalize_text", "_extract_nutrition_data", "group_food_items_by_meal_type",
     "TargetDetailSerializer"}

\* the inputs the threads call the operations on
ThreadInputs(op) ==
    CASE op = "normalize_text" -> {EnumeratedExample, CommaExample, <<"F", "l", "o", "u", "r", "\n", "a", "b">>}
      [] op = "_extract_nutrition_data" ->
            {<< [name |-> Str(nm.Calories), amount |-> Num(250000)],
                [name |-> Str(nm.Total_Fat), amount |-> Num(10000)] >>,
             << [name |-> Str(nm.Protein), amount |-> Str(<<"5">>)],
                [name |-> Str(nm.Saturated_Fat), amount |-> Num(2000)] >>,
             << [name |-> Str(nm.Protein), amount |-> Str(<<"a", "b", "c">>)] >>}
      [] op = "group_food_items_by_meal_type" ->
            {<< [id |-> 1, meal_type_name |-> Str(mk_lunch)],
                [id |-> 2, meal_type_name |-> Null] >>,
             << [id |-> 1, meal_type_name |-> Str(m_Dinner)],
                [id |-> 2, meal_type_name |-> Str(m_Brunch)] >>}
      [] op = "TargetDetailSerializer" ->
            {NewUser,
             [age |-> Some(30), gender |-> Some("male"), height |-> Some(18000),
              weight |-> Some(8000), aimed_weight |-> Some(7500),
              aimed_date |-> Some(30), life_style |-> Some("Sedentary")]}

\* the result of an operation run alone on an input
RunAlone(op, input) ==
    CASE op = "normalize_text" -> [error |-> "", value |-> normalize_text(input)]
      [] op = "_extract_nutrition_data" -> _extract_nutrition_data(input)
      [] op = "group_food_items_by_meal_type" ->
            [error |-> "", value |-> group_food_items_by_meal_type(input)]
      [] op = "TargetDetailSerializer" -> [error |-> "", value |-> TargetDetail(input)]

\* the local accumulator a call starts with
NewAccumulator(op) ==
    CASE op = "normalize_text" -> << >>
      [] op = "_extract_nutrition_data" -> ZeroRecord
      [] op = "group_food_items_by_meal_type" -> EmptyGroups
      [] op = "TargetDetailSerializer" -> << >>

\* the passes of the loop of an operation over its input
Passes(op, input) ==
    CASE op = "normalize_text" -> Len(split(input, "\n"))
      [] op = "_extract_nutrition_data" -> Len(input)
      [] op = "group_food_items_by_meal_type" -> Len(input)
      [] op = "TargetDetailSerializer" -> 0

IdleFrame ==
    [op |-> "idle", given |-> << >>, input |-> << >>, pc |-> 0, acc |-> << >>,
     result |-> None]

frame_acc_shared(fs, t) == IF fs[1].op = fs[t].op THEN fs[1].acc ELSE fs[t].acc

\* the accumulator of the call on thread t: a local of its own frame
frame_acc(fs, t) == fs[t].acc

\* thread t enters an operation: the argument is bound and the locals initialised
ThreadCall(t) ==
    /\ frames[t].op = "idle"
    /\ \E op \in Operations : \E input \in ThreadInputs(op) :
          frames' = [frames EXCEPT ![t] =
                        [op |-> op, given |-> input, input |-> input, pc |-> 0,
                         acc |-> NewAccumulator(op), result |-> None]]
    /\ UNCHANGED tables
    /\ UNCHANGED <<goalVars, extractVars, parserVars, mealVars, viewVars>>

\* thread t runs one pass of the loop of its operation
ThreadStep(t) ==
    /\ frames[t].op # "idle"
    /\ frames[t].result = None
    /\ frames[t].pc < Passes(frames[t].op, frames[t].input)
    /\ LET f == frames[t]
           acc == frame_acc(frames, t)
           at == f.pc + 1
       IN  CASE f.op = "normalize_text" ->
                  LET normalized_line == _normalize_line(split(f.input, "\n")[at])
                  IN  frames' = [frames EXCEPT ![t].pc = at,
                                    ![t].acc = IF Truthy(normalized_line)
                                               THEN Append(acc, normalized_line[1])
                                               ELSE acc]
             [] f.op = "_extract_nutrition_data" ->
                  LET step == extract_entry(acc, f.input[at])
                  IN  IF step.error # ""
                      THEN frames' = [frames EXCEPT ![t].result =
                                         Some([error |-> step.error, value |-> << >>])]
                      ELSE frames' = [frames EXCEPT ![t].pc = at, ![t].acc = step.value]
             [] f.op = "group_food_items_by_meal_type" ->
                  frames' = [frames EXCEPT ![t].pc = at,
                                ![t].acc = [acc EXCEPT ![group_key(f.input[at])] =
                                                Append(@, f.input[at])]]
    /\ UNCHANGED tables
    /\ UNCHANGED <<goalVars, extractVars, parserVars, mealVars, viewVars>>

\* thread t leaves its operation with the value it returns
ThreadReturn(t) ==
    /\ frames[t].op # "idle"
    /\ frames[t].result = None
    /\ frames[t].pc = Passes(frames[t].op, frames[t].input)
    /\ LET f == frames[t]
           acc == frame_acc(frames, t)
           value ==
             CASE f.op = "normalize_text" ->
                    IF f.input = << >> \/ strip(f.input) = << >> THEN << >>
                    ELSE IF Len(acc) < 2 THEN _split_by_delimiters(f.input) ELSE acc
               [] f.op = "_extract_nutrition_data" -> [x \in Fields |-> round2(acc[x])]
               [] f.op = "group_food_items_by_meal_type" -> acc
               [] f.op = "TargetDetailSerializer" -> TargetDetail(f.input)
       IN  frames' = [frames EXCEPT ![t].result = Some([error |-> "", value |-> value])]
    /\ UNCHANGED tables
    /\ UNCHANGED <<goalVars, extractVars, parserVars, mealVars, viewVars>>

\* the worker serves the next request: the frame of the finished call is dropped
ThreadDone(t) ==
    /\ frames[t].result # None
    /\ frames' = [frames EXCEPT ![t] = IdleFrame]
    /\ UNCHANGED tables
    /\ UNCHANGED <<goalVars, extractVars, parserVars, mealVars, viewVars>>

InitThreads ==
    /\ obj = NewUser
    /\ response = [kind |-> "none"]
    /\ nutrients = << >>
    /\ idx = 0
    /\ rec = << >>
    /\ outcome = "idle"
    /\ result = None
    /\ ParserIdle
    /\ ViewsIdle
    /\ NoMealTypes
    /\ frames = [t \in Threads |-> IdleFrame]
    /\ tables = ProcessTables

NextThreads ==
    \E t \in Threads : ThreadCall(t) \/ ThreadStep(t) \/ ThreadReturn(t) \/ ThreadDone(t)

SpecThreads == InitThreads /\ [][NextThreads]_vars

\* ------------------------------------------------------------------------
\* food/views.py: parse_date and RangeFoodStatsView.get
\* ------------------------------------------------------------------------
\* DATE_FORMATS: the separator and the order of the directives of a format
DATE_FORMATS ==
    << [sep |-> "-", order |-> <<"Y", "m", "d">>],
       [sep |-> "/", order |-> <<"m", "d", "Y">>],
       [sep |-> "/", order |-> <<"d", "m", "Y">>],
       [sep |-> "/", order |-> <<"Y", "m", "d">>] >>

AllDigits(s) == \A i \in 1 .. Len(s) : s[i] \in Digits

\* what strptime accepts for a directive: %Y four digits; %m 1..12 and %d 1..31
\* in one or two digits, %d also with a space for the first
directive_matches(directive, s) ==
    CASE directive = "Y" -> Len(s) = 4 /\ AllDigits(s)
      [] directive = "m" -> Len(s) \in {1, 2} /\ AllDigits(s)
                             /\ digits_value(s) \in 1 .. 12
      [] directive = "d" ->
            \/ Len(s) \in {1, 2} /\ AllDigits(s) /\ digits_value(s) \in 1 .. 31
            \/ Len(s) = 2 /\ s[1] = " " /\ s[2] \in Digits \ {"0"}

directive_value(s) == IF s[1] = " " THEN digit(s[2]) ELSE digits_value(s)

IsLeap(y) == y % 4 = 0 /\ (y % 100 # 0 \/ y % 400 = 0)

DaysInMonth(y, m) ==
    IF m = 2 THEN (IF IsLeap(y) THEN 29 ELSE 28)
    ELSE IF m \in {4, 6, 9, 11} THEN 30 ELSE 31

\* datetime.strptime(date_string, format).date(): the date, or ValueError
strptime(date_string, format) ==
    LET parts == split(date_string, format.sep)
    IN  IF Len(parts) # 3
           \/ \E i \in 1 .. 3 : ~directive_matches(format.order[i], parts[i])
        THEN [error |-> "ValueError"]
        ELSE LET at(directive) ==
                     directive_value(parts[CHOOSE i \in 1 .. 3 : format.order[i] = directive])
                 y == at("Y")
                 m == at("m")
                 d == at("d")
             IN  IF y < 1 \/ d > DaysInMonth(y, m) THEN [error |-> "ValueError"]
                 ELSE [error |-> "", date |-> <<y, m, d>>]

\* the loop of parse_date from the i-th format on
RECURSIVE parse_from(_, _)
parse_from(date_string, i) ==
    IF i > Len(DATE_FORMATS) THEN [error |-> "ValueError"]
    ELSE LET parsed == strptime(date_string, DATE_FORMATS[i])
         IN  IF parsed.error = "" THEN parsed ELSE parse_from(date_string, i + 1)

parse_date(date_string) == parse_from(date_string, 1)

\* start_date > end_date on dates
DateAfter(a, b) ==
    \/ a[1] > b[1]
    \/ a[1] = b[1] /\ a[2] > b[2]
    \/ a[1] = b[1] /\ a[2] = b[2] /\ a[3] > b[3]

HTTP_200_OK == 200
HTTP_400_BAD_REQUEST == 400

BadRequest(error) ==
    [kind |-> "response", status |-> HTTP_400_BAD_REQUEST, error |-> error,
     aggregated |-> FALSE]

\* RangeFoodStatsView.get on the query parameters start_date and end_date: the
\* response, or the exception that leaves the method.  parse_date raises on a
\* string it cannot parse and never returns None, so the 'Invalid date format'
\* branch is not taken.
RangeFoodStatsView_get(start_str, end_str) ==
    IF ~truthy(get(start_str, Null)) \/ ~truthy(get(end_str, Null))
    THEN BadRequest("Both start_date and end_date are required.")
    ELSE LET start_date == parse_date(start_str.s)
             end_date == parse_date(end_str.s)
         IN  IF start_date.error # "" \/ end_date.error # ""
             THEN [kind |-> "exception", status |-> 0, error |-> "ValueError",
                   aggregated |-> FALSE]
             ELSE IF DateAfter(start_date.date, end_date.date)
             THEN BadRequest("start_date cannot be after end_date.")
             ELSE [kind |-> "response", status |-> HTTP_200_OK, error |-> "",
                   aggregated |-> TRUE]

\* values of a query parameter: absent, empty, dates in the four formats, a
\* single-digit month and day, a day that is no month, 30 February, a word
DateParams ==
    {Missing, Str(<< >>), Str(<<"2", "0", "2", "6", "-", "0", "1", "-", "0", "1">>), Str(<<"2", "0", "2", "6", "-", "0", "1", "-", "0", "7">>), Str(<<"0", "1", "/", "0", "7", "/", "2", "0", "2", "6">>), Str(<<"1", "3", "/", "0", "1", "/", "2", "0", "2", "6">>), Str(<<"2", "0", "2", "6", "/", "0", "1", "/", "0", "5">>), Str(<<"2", "0", "2", "6", "-", "1", "-", "7">>), Str(<<"2", "0", "2", "5", "-", "1", "2", "-", "3", "1">>),
     Str(<<"2", "0", "2", "6", "-", "0", "2", "-", "3", "0">>), Str(<<"t", "o", "d", "a", "y">>)}

\* a GET request to the range statistics
RangeFoodStats ==
    /\ range_response = None
    /\ \E start_str \in DateParams : \E end_str \in DateParams :
          range_response' = Some([start_date |-> start_str, end_date |-> end_str,
                                  response |-> RangeFoodStatsView_get(start_str, end_str)])
    /\ UNCHANGED <<provider_call, grouped>>
    /\ UNCHANGED <<goalVars, extractVars, parserVars, mealVars, threadVars>>

SpecRange == InitProvider /\ [][RangeFoodStats]_vars

\* ------------------------------------------------------------------------
\* The energy goal calculator as the specification states it
\* ------------------------------------------------------------------------
\* the four biometric fields are there: not null, not zero, not blank
HasBiometrics(o) ==
    TruthyNum(o.weight) /\ TruthyNum(o.height) /\ TruthyNum(o.age) /\ TruthyStr(o.gender)

\* the three goal fields are there
HasGoal(o) ==
    TruthyNum(o.weight) /\ TruthyNum(o.aimed_weight) /\ o.aimed_date # None

\* Mifflin-St Jeor offset: 5 for male, -161 for every other gender value
MifflinOffset(g) == IF g = "male" THEN 5 ELSE 0 - 161

\* the fixed activity table, 1.2 for a level that is not one of its keys
TableFactor(l) ==
    CASE l = Some("Sedentary") -> 1200
      [] l = Some("Lightly active") -> 1375
      [] l = Some("Moderately active") -> 1550
      [] l = Some("Active") -> 1725
      [] l = Some("Very active") -> 1900
      [] OTHER -> 1200

\* 400000 * BMR * factor, so that TDEE = ExactTdeeN(o) / 400000
ExactTdeeN(o) ==
    (40 * o.weight[1] + 25 * o.height[1] - 2000 * o.age[1]
        + 400 * MifflinOffset(o.gender[1])) * TableFactor(o.life_style)

\* the deficit denominator: days until the aimed date, at least 1
DeficitDays(o) == IF o.aimed_date[1] >= 1 THEN o.aimed_date[1] ELSE 1

\* 100 * total deficit, so that dailyDeficit = ExactDeficitN(o) / (100 * DeficitDays(o))
ExactDeficitN(o) == (o.weight[1] - o.aimed_weight[1]) * 7700

\* round(k + n / d), ties to even: the rounding of a value given as integer part
\* plus fraction
RoundSum(k, n, d) ==
    LET q == k + (n \div d)
        r == n % d
    IN  IF 2 * r < d THEN q
        ELSE IF 2 * r > d THEN q + 1
        ELSE IF q % 2 = 0 THEN q ELSE q + 1

\* round(TDEE - dailyDeficit), the difference of the two exact quotients rounded once
RoundExactDifference(o) ==
    LET B == 400000
        D == 100 * DeficitDays(o)
        qt == ExactTdeeN(o) \div B
        rt == ExactTdeeN(o) % B
        qd == ExactDeficitN(o) \div D
        rd == ExactDeficitN(o) % D
    IN  RoundSum(qt - qd, rt * DeficitDays(o) - rd * (B \div 100), (B \div 100) * D)

ExampleProfile ==
    [age |-> Some(30), gender |-> Some("male"), height |-> Some(18000),
     weight |-> Some(8000), aimed_weight |-> Some(7500), aimed_date |-> Some(30),
     life_style |-> Some("Sedentary")]

\* a profile whose TDEE rounds to 0, as 10*1.10 + 6.25*24.80 - 5*1 - 161 = 0 does
TinyTdeeProfile(o) == HasBiometrics(o) /\ round(ExactTdeeN(o), 400000) = 0

\* the pipeline BMR -> TDEE -> total deficit -> daily deficit -> floored target,
\* each reported value an integer
PipelineValues(o, r) ==
    /\ r.tdee = round(ExactTdeeN(o), 400000)
    /\ r.daily_deficit = round(ExactDeficitN(o), 100 * DeficitDays(o))
    /\ r.days_left = Max(o.aimed_date[1], 0)

\* C1 as stated: for the profile {80 kg, 180 cm, 30 years, male, Sedentary, aimed
\* 75 kg, aimed date today + 30 days} the projection is tdee 2376, daily_deficit
\* 1283, calorie_target 1200 and days_left 30; and for every complete profile the
\* four reported values are those of the pipeline BMR -> TDEE -> total deficit ->
\* daily deficit -> target floored at 1200.  Stated here on the profiles whose
\* TDEE does not round to 0, so that a violation is one of the example's figures.
C1_ExampleAsStated ==
    (response.kind = "target" /\ HasBiometrics(obj) /\ HasGoal(obj)
        /\ ~TinyTdeeProfile(obj)) =>
        /\ (obj = ExampleProfile) =>
              /\ response.tdee = 2376
              /\ response.daily_deficit = 1283
              /\ response.calorie_target = 1200
              /\ response.days_left = 30
        /\ PipelineValues(obj, response)
        /\ response.calorie_target =
              Max(response.tdee - response.daily_deficit, 1200)

\* C1 as amended: for the example profile the projection is tdee 2136 (BMR 1780
\* times 1.2), daily_deficit 1283, calorie_target 1200 (computed 853, raised to
\* the floor) and days_left 30; and for every complete profile tdee, daily_deficit
\* and days_left are those of the pipeline and calorie_target is
\* max(tdee - daily_deficit, 1200), or 0 when tdee is 0.
C1_PipelineProjection ==
    (response.kind = "target" /\ HasBiometrics(obj) /\ HasGoal(obj)) =>
        /\ (obj = ExampleProfile) =>
              /\ response.tdee = 2136
              /\ response.daily_deficit = 1283
              /\ response.calorie_target = 1200
              /\ response.days_left = 30
        /\ PipelineValues(obj, response)
        /\ response.calorie_target =
              IF response.tdee = 0 THEN 0
              ELSE Max(response.tdee - response.daily_deficit, 1200)

C1_Witness ==
    /\ obj = ExampleProfile
    /\ response =
          [kind |-> "target", tdee |-> 2136, daily_deficit |-> 1283,
           calorie_target |-> 1200, days_left |-> 30]

\* C2: with weight, height, age and gender present, tdee is
\* round((10*weight + 6.25*height - 5*age + s) * f), s = 5 exactly for 'male' and
\* -161 for every other gender, f the table factor of the activity level or 1.2
\* when the level is missing or not a key of the table.
C2_TdeeFormula ==
    (response.kind = "target" /\ HasBiometrics(obj)) =>
        response.tdee = round(ExactTdeeN(obj), 400000)

C2_Witness ==
    /\ response.kind = "target"
    /\ HasBiometrics(obj)
    /\ obj.gender = Some("other")
    /\ obj.life_style = Some("")
    /\ obj.weight = Some(8000)
    /\ obj.height = Some(18000)
    /\ obj.age = Some(30)
    /\ response.tdee = 1937

\* C3: when any of weight, height, age or gender is absent (null, or the zero or
\* blank value the serializer treats as missing), tdee is 0 and calorie_target is 0
\* (not 1200), whatever aimed weight, aimed date and activity level are.
C3_MissingBiometricsZero ==
    (response.kind = "target" /\ ~HasBiometrics(obj)) =>
        /\ response.tdee = 0
        /\ response.calorie_target = 0

C3_Witness ==
    /\ response.kind = "target"
    /\ obj.height = None
    /\ obj.weight = Some(8000)
    /\ obj.aimed_weight = Some(7500)
    /\ obj.aimed_date = Some(30)
    /\ obj.life_style = Some("Active")
    /\ response.daily_deficit = 1283
    /\ response.calorie_target = 0

\* C4: with weight, height, age and gender all present, calorie_target is an
\* integer >= 1200 however large the deficit or small the TDEE; and days_left is
\* an integer >= 0 in every projection.
C4_TargetFloor ==
    (response.kind = "target") =>
        /\ HasBiometrics(obj) => response.calorie_target >= 1200
        /\ response.days_left >= 0

\* C5: an aimed date of today or earlier reports days_left 0 while the daily
\* deficit is computed over max(aimedDate - today, 1) = 1 day; an absent aimed
\* date reports days_left 0.
C5_TwoClamps ==
    (response.kind = "target") =>
        /\ (obj.aimed_date # None /\ obj.aimed_date[1] <= 0) =>
              /\ response.days_left = 0
              /\ HasGoal(obj) =>
                    response.daily_deficit = round(ExactDeficitN(obj), 100)
        /\ (obj.aimed_date = None) => response.days_left = 0

C5_Witness ==
    /\ response.kind = "target"
    /\ obj.aimed_date = Some(0 - 1)
    /\ obj.weight = Some(8000)
    /\ obj.aimed_weight = Some(7500)
    /\ response.days_left = 0
    /\ response.daily_deficit = 38500

\* C6: daily_deficit is 0 when weight, aimed weight or aimed date is absent;
\* otherwise it is round((weight - aimedWeight) * 7700 / max(days, 1)), not
\* positive when the aimed weight exceeds the weight (a surplus), and then the
\* calorie target is TDEE plus the surplus, floored at 1200.
C6_DailyDeficit ==
    (response.kind = "target") =>
        /\ ~HasGoal(obj) => response.daily_deficit = 0
        /\ HasGoal(obj) =>
              /\ response.daily_deficit =
                    round(ExactDeficitN(obj), 100 * DeficitDays(obj))
              /\ (obj.aimed_weight[1] > obj.weight[1]) =>
                    /\ response.daily_deficit <= 0
                    /\ HasBiometrics(obj) =>
                          response.calorie_target =
                              Max(response.tdee + (0 - response.daily_deficit), 1200)

\* C7 as stated: for every complete profile calorie_target is
\* max(round(TDEE - dailyDeficit), 1200) with TDEE and dailyDeficit exact, the
\* difference rounded once.  Stated here on the profiles whose TDEE does not
\* round to 0, so that a violation is one of rounding alone.
C7_RoundedOnce ==
    (response.kind = "target" /\ HasBiometrics(obj) /\ HasGoal(obj)
        /\ ~TinyTdeeProfile(obj)) =>
        response.calorie_target = Max(RoundExactDifference(obj), 1200)

\* C7 as amended: for every complete profile calorie_target is
\* max(round(TDEE) - round(dailyDeficit), 1200), each of the two rounded before
\* the subtraction (0 when round(TDEE) is 0).
C7_RoundedTwice ==
    (response.kind = "target" /\ HasBiometrics(obj) /\ HasGoal(obj)) =>
        response.calorie_target =
            IF round(ExactTdeeN(obj), 400000) = 0 THEN 0
            ELSE Max(round(ExactTdeeN(obj), 400000)
                       - round(ExactDeficitN(obj), 100 * DeficitDays(obj)), 1200)

C7_Witness ==
    /\ response.kind = "target"
    /\ HasBiometrics(obj)
    /\ HasGoal(obj)
    /\ response.calorie_target > 1200
    /\ response.calorie_target # RoundExactDifference(obj)

\* ------------------------------------------------------------------------
\* The nutrient field mapper as the specification states it
\* ------------------------------------------------------------------------
\* The ordered rule groups: a group applies when the name contains one of `any`;
\* within the first group that applies, the first rule whose `all` are contained
\* and whose `none` are not gives the field; a group none of whose rules accepts
\* the name maps it to nothing.
Rule(all, none, field) == [all |-> all, none |-> none, field |-> field]

Plain(any, field) == [any |-> any, rules |-> <<Rule({}, {}, field)>>]

RuleGroups ==
    << Plain({kw.calorie, kw.energy}, "calories"),
       Plain({kw.protein}, "protein"),
       [any |-> {kw.carbohydrate, kw.carb},
        rules |-> <<Rule({}, {kw.net, kw.fiber}, "carbohydrates")>>],
       [any |-> {kw.fat},
        rules |-> <<Rule({kw.saturated}, {}, "saturated_fat"),
                    Rule({kw.trans}, {}, "trans_fat"),
                    Rule({}, {kw.monounsaturated, kw.polyunsaturated}, "fats")>>],
       Plain({kw.fiber, kw.fibre}, "fiber"),
       Plain({kw.sugar}, "sugar"),
       Plain({kw.cholesterol}, "cholesterol"),
       Plain({kw.sodium}, "sodium"),
       Plain({kw.vitamin_a}, "vitamin_a"),
       Plain({kw.vitamin_c}, "vitamin_c"),
       Plain({kw.vitamin_d}, "vitamin_d"),
       Plain({kw.vitamin_e}, "vitamin_e"),
       Plain({kw.vitamin_k}, "vitamin_k"),
       Plain({kw.thiamin, kw.vitamin_b1}, "thiamin"),
       Plain({kw.riboflavin, kw.vitamin_b2}, "riboflavin"),
       Plain({kw.niacin, kw.vitamin_b3}, "niacin"),
       Plain({kw.vitamin_b6}, "vitamin_b6"),
       Plain({kw.folate, kw.folic_acid, kw.vitamin_b9}, "folate"),
       Plain({kw.vitamin_b12, kw.cobalamin}, "vitamin_b12"),
       Plain({kw.calcium}, "calcium"),
       Plain({kw.iron}, "iron"),
       Plain({kw.magnesium}, "magnesium"),
       Plain({kw.phosphorus}, "phosphorus"),
       Plain({kw.potassium}, "potassium"),
       Plain({kw.zinc}, "zinc"),
       Plain({kw.copper}, "copper"),
       Plain({kw.manganese}, "manganese"),
       Plain({kw.selenium}, "selenium") >>

GroupApplies(g, name) == \E k \in g.any : In(k, name)

RuleAccepts(r, name) ==
    /\ \A k \in r.all : In(k, name)
    /\ \A k \in r.none : ~In(k, name)

\* the field of the first matching rule, NoField when there is none
RuleField(name) ==
    LET hits == {i \in 1 .. Len(RuleGroups) : GroupApplies(RuleGroups[i], name)}
    IN  IF hits = {} THEN NoField
        ELSE LET g == RuleGroups[CHOOSE i \in hits : \A j \in hits : i <= j]
                 ok == {i \in 1 .. Len(g.rules) : RuleAccepts(g.rules[i], name)}
             IN  IF ok = {} THEN NoField
                 ELSE g.rules[CHOOSE i \in ok : \A j \in ok : i <= j].field

\* the loop has just processed the entry nutrients[idx']
Processed == outcome = "running" /\ idx' = idx + 1

\* the lower-cased name and the amount of the entry just processed
ProcessedName == lower(get(nutrients[idx + 1].name, Str(<< >>)).s)
ProcessedAmount == float(get(nutrients[idx + 1].amount, Num(0))).n

\* a keyword of a rule that precedes the fat rules is in the name
HasEarlierKeyword(name) ==
    \E k \in {kw.calorie, kw.energy, kw.protein, kw.carbohydrate, kw.carb} : In(k, name)

Returned == outcome = "returned"

ExampleResult ==
    [f \in Fields |->
        CASE f = "calories" -> 250000
          [] f = "protein" -> 5000
          [] f = "saturated_fat" -> 2000
          [] f = "fats" -> 10000
          [] OTHER -> 0]

\* C8 as stated: the example entries [Calories 250, Protein "5", Saturated Fat 2,
\* Total Fat 10] give calories 250.0, protein 5.0, saturated fat 2.0, fat 10.0 and
\* 0.0 elsewhere, in any order; an entry whose name contains 'saturated' and 'fat'
\* sets only saturated fat, and an entry 'Total Fat' sets only the plain fat field.
C8_SaturatedAndFat ==
    /\ [](Returned /\ nutrients \in ExampleLists => result = Some(ExampleResult))
    /\ [][(Processed /\ In(kw.saturated, ProcessedName) /\ In(kw.fat, ProcessedName)) =>
              rec' = [rec EXCEPT !["saturated_fat"] = ProcessedAmount]]_vars
    /\ [][(Processed /\ ProcessedName = lower(nm.Total_Fat)) =>
              rec' = [rec EXCEPT !["fats"] = ProcessedAmount]]_vars

\* C8 as amended: the same, the saturated-fat rule being said of the names that
\* contain 'saturated' and 'fat' and none of the keywords of the rules placed
\* before the fat rules (calorie, energy, protein, carbohydrate, carb).
C8_ExampleAndFatFamily ==
    /\ [](Returned /\ nutrients \in ExampleLists => result = Some(ExampleResult))
    /\ [][(Processed /\ In(kw.saturated, ProcessedName) /\ In(kw.fat, ProcessedName)
            /\ ~HasEarlierKeyword(ProcessedName)) =>
              rec' = [rec EXCEPT !["saturated_fat"] = ProcessedAmount]]_vars
    /\ [][(Processed /\ ProcessedName = lower(nm.Total_Fat)) =>
              rec' = [rec EXCEPT !["fats"] = ProcessedAmount]]_vars

C8_Witness ==
    /\ Returned
    /\ nutrients \in ExampleLists
    /\ nutrients[1].name = Str(nm.Total_Fat)
    /\ nutrients[2].name = Str(nm.Saturated_Fat)
    /\ result[1]["fats"] = 10000
    /\ result[1]["saturated_fat"] = 2000
    /\ result[1]["protein"] = 5000

\* a JSON value that _extract_nutrition_data reads without raising
ReadableName(v) == v.tag \in {"missing", "str"}
ReadableAmount(v) == v.tag = "missing" \/ float(v).ok

\* C9: the empty entries list gives 0.0 in every macro, vitamin and mineral field
\* and raises nothing; for any list every field that no entry maps to is 0.0 in
\* the result; an entry without a name key or without an amount key is no error.
C9_ZeroFill ==
    /\ (nutrients = << >> /\ outcome # "idle") =>
          /\ outcome \in {"running", "returned"}
          /\ Returned => result = Some([f \in Fields |-> 0])
    /\ Returned =>
          LET mapped == {RuleField(lower(get(nutrients[i].name, Str(<< >>)).s)) :
                            i \in 1 .. Len(nutrients)}
          IN  \A f \in Fields \ mapped : result[1][f] = 0
    /\ (outcome \in {"ValueError", "AttributeError"}) =>
          ~(ReadableName(nutrients[idx + 1].name)
              /\ ReadableAmount(nutrients[idx + 1].amount))

C9_Witness ==
    /\ Returned
    /\ Len(nutrients) = 2
    /\ nutrients[1] = [name |-> Missing, amount |-> Num(2000)]
    /\ nutrients[2] = [name |-> Str(nm.Protein), amount |-> Missing]
    /\ result = Some([f \in Fields |-> 0])

\* C10: processing one entry changes at most one field, the target of the first
\* rule in rule order that matches the lower-cased name, and leaves every other
\* field unchanged; an entry that matches no rule, or only a rule group whose
\* qualifier guard excludes it, changes no field.
C10_AtMostOneField ==
    [][/\ Processed =>
            LET target == RuleField(ProcessedName)
            IN  /\ \A f \in Fields \ {target} : rec'[f] = rec[f]
                /\ target = NoField => rec' = rec
       /\ (outcome = "running" /\ idx' = idx) => rec' = rec]_vars

C10_Witness ==
    /\ Returned
    /\ Len(nutrients) = 2
    /\ nutrients[1] = [name |-> Str(nm.Net_Carbohydrates), amount |-> Num(2000)]
    /\ nutrients[2] = [name |-> Str(nm.Calories_from_Saturated_Fat), amount |-> Num(10504)]
    /\ result = Some([f \in Fields |-> IF f = "calories" THEN 10500 ELSE 0])

\* C11: an entry naming an unsaturated fat variant ('Monounsaturated Fat',
\* 'Polyunsaturated Fat') overwrites no fat field: after it is processed the
\* saturated-fat, trans-fat and plain fat fields are all unchanged.
C11_UnsaturatedLeavesFat ==
    [][(Processed /\ ProcessedName \in {lower(nm.Monounsaturated_Fat),
                                        lower(nm.Polyunsaturated_Fat)}) =>
          /\ rec'["saturated_fat"] = rec["saturated_fat"]
          /\ rec'["trans_fat"] = rec["trans_fat"]
          /\ rec'["fats"] = rec["fats"]]_vars

\* C12: an entry named 'Vitamin B12' or 'cobalamin' sets the B12 field and leaves
\* the B1/thiamin field (and every other field) unchanged; an entry named
\* 'Vitamin B1' or 'thiamin' sets only B1; 'folic acid' sets only folate.
C12_VitaminMostSpecificFirst ==
    [][Processed =>
          /\ ProcessedName \in {lower(nm.Vitamin_B12), lower(nm.cobalamin)} =>
                rec' = [rec EXCEPT !["vitamin_b12"] = ProcessedAmount]
          /\ ProcessedName \in {lower(nm.Vitamin_B1), lower(nm.thiamin)} =>
                rec' = [rec EXCEPT !["thiamin"] = ProcessedAmount]
          /\ ProcessedName = lower(nm.folic_acid) =>
                rec' = [rec EXCEPT !["folate"] = ProcessedAmount]]_vars

\* ------------------------------------------------------------------------
\* The two mappers on repeated, malformed and negative entries
\* ------------------------------------------------------------------------
ViewReturned == outcome = "view_returned"

EntryName(i) == lower(get(nutrients[i].name, Str(<< >>)).s)

\* entry j is the last of two or more entries that all go to field[j]
LastOfSeveral(field, j) ==
    /\ \E i \in 1 .. j - 1 : field[i] = field[j]
    /\ \A k \in j + 1 .. Len(nutrients) : field[k] # field[j]

\* C13: when two or more entries of the list map to the same field, the field's
\* final value is the amount of the last such entry in iteration order (not the
\* sum, not the first), in _extract_nutrition_data (rounded to 2 decimals, as
\* every returned value is) and in extract_nutrition_data.
C13_LastWriteWins ==
    /\ Returned =>
          LET field == [i \in 1 .. Len(nutrients) |-> RuleField(EntryName(i))]
          IN  \A j \in 1 .. Len(nutrients) :
                  (field[j] \in Fields /\ LastOfSeveral(field, j)) =>
                      result[1][field[j]] =
                          round2(float(get(nutrients[j].amount, Num(0))).n)
    /\ ViewReturned =>
          LET field == [i \in 1 .. Len(nutrients) |->
                          IF \E f \in ViewFields : view_key(f) = EntryName(i)
                          THEN CHOOSE f \in ViewFields : view_key(f) = EntryName(i)
                          ELSE NoField]
          IN  \A j \in 1 .. Len(nutrients) :
                  (field[j] \in ViewFields /\ LastOfSeveral(field, j)) =>
                      result[1][field[j]] =
                          float(or_zero(get(nutrients[j].amount, Num(0)))).n

C13_Witness ==
    /\ ViewReturned
    /\ nutrients = << [name |-> Str(nm.Saturated_Fat), amount |-> Num(10504)],
                      [name |-> Str(nm.Saturated_Fat), amount |-> Num(2000)] >>
    /\ result[1]["saturated_fat"] = 2000

\* C14: an amount given as a string, a number or null is coerced to a
\* non-negative decimal: no call ends in an error because of an amount (a null
\* or non-numeric amount counts as 0), and no field of a returned record is
\* negative.
C14_AmountCoerced ==
    /\ outcome \notin {"ValueError", "view_ValueError"}
    /\ Returned => \A f \in Fields : result[1][f] >= 0
    /\ ViewReturned => \A f \in ViewFields : result[1][f] >= 0

\* ------------------------------------------------------------------------
\* The ingredient line parser as the specification states it
\* ------------------------------------------------------------------------
Normalized == parser_step # "idle"

Letters ==
    {"a", "b", "c", "d", "e", "f", "g", "h", "i", "j", "k", "l", "m", "n", "o", "p",
     "q", "r", "s", "t", "u", "v", "w", "x", "y", "z", "A", "B", "C", "D", "E", "F",
     "G", "H", "I", "J", "K", "L", "M", "N", "O", "P", "Q", "R", "S", "T", "U", "V",
     "W", "X", "Y", "Z"}

\* an ingredient name: three letters or more
IsName(s) == Len(s) >= 3 /\ \A i \in 1 .. Len(s) : s[i] \in Letters

WhitespaceOnly(s) == \A i \in 1 .. Len(s) : s[i] \in {" ", "\n", "\t"}

\* the non-empty elements of a sequence of strings, in order
RECURSIVE NonEmpty(_)
NonEmpty(ss) ==
    IF ss = << >> THEN << >>
    ELSE IF Head(ss) = << >> THEN NonEmpty(Tail(ss))
    ELSE << Head(ss) >> \o NonEmpty(Tail(ss))

\* C15: normalize_text raises for no text; for empty or whitespace-only text it
\* returns the empty sequence; what it returns is always a sequence of lines,
\* empty when no line is valid, never None and never holding a None or an
\* empty line.
C15_EmptyForBlankText ==
    Normalized =>
        /\ WhitespaceOnly(raw_text) => ingredient_lines = << >>
        /\ DOMAIN ingredient_lines = 1 .. Len(ingredient_lines)
        /\ \A i \in 1 .. Len(ingredient_lines) :
              /\ ingredient_lines[i] # None
              /\ DOMAIN ingredient_lines[i] = 1 .. Len(ingredient_lines[i])

C15_Witness ==
    /\ parser_step = "normalized"
    /\ raw_text = << "\n" >>
    /\ ingredient_lines = << >>

\* a line 'd. Name': one digit, a full stop, a space and a name
EnumeratedLine(l) ==
    /\ Len(l) >= 4
    /\ l[1] \in Digits
    /\ l[2] = "."
    /\ l[3] = " "
    /\ IsName(SubSeq(l, 4, Len(l)))

\* C16: for newline-separated text whose lines are enumerated names ('1. Flour',
\* '2. Sugar', '3. Eggs'), blank lines apart, normalize_text returns the names
\* with the enumeration stripped, one per line, in the order of the lines; for the
\* example, ['Flour', 'Sugar', 'Eggs'].
C16_EnumerationStripped ==
    Normalized =>
        /\ LET lines == NonEmpty(split(raw_text, "\n"))
           IN  (lines # << >> /\ \A i \in 1 .. Len(lines) : EnumeratedLine(lines[i])) =>
                   ingredient_lines =
                       [i \in 1 .. Len(lines) |-> SubSeq(lines[i], 4, Len(lines[i]))]
        /\ raw_text = EnumeratedExample =>
               ingredient_lines = << <<"F", "l", "o", "u", "r">>, <<"S", "u", "g", "a", "r">>, <<"E", "g", "g", "s">> >>

C16_Witness ==
    /\ parser_step = "normalized"
    /\ raw_text = EnumeratedExample
    /\ ingredient_lines = << <<"F", "l", "o", "u", "r">>, <<"S", "u", "g", "a", "r">>, <<"E", "g", "g", "s">> >>

\* C17: for text without newlines that lists ingredient names separated by
\* commas, normalize_text returns one line per listed name, in order; 'Flour,
\* Sugar, Eggs' yields 3 lines.
C17_CommaFallback ==
    Normalized =>
        /\ LET listed == split(raw_text, ",")
           IN  (/\ "\n" \notin {raw_text[i] : i \in 1 .. Len(raw_text)}
                /\ Len(listed) >= 2
                /\ \A i \in 1 .. Len(listed) : IsName(strip(listed[i]))) =>
                   ingredient_lines = [i \in 1 .. Len(listed) |-> strip(listed[i])]
        /\ raw_text = CommaExample => Len(ingredient_lines) = 3

\* C18: normalize_text is idempotent up to reformatting: normalizing the
\* newline-joined lines it returned gives the same lines again.
C18_Idempotent ==
    Normalized =>
        normalize_text(format_for_spoonacular(ingredient_lines)) = ingredient_lines

\* C19: every returned line has at least 3 characters, no leading or trailing
\* whitespace, no two whitespace characters in a row, no bullet glyph ('•', '*',
\* '-'), and does not begin with a character of an enumeration prefix (a digit,
\* '.', '-').
C19_CleanLines ==
    Normalized =>
        \A i \in 1 .. Len(ingredient_lines) :
            LET l == ingredient_lines[i]
            IN  /\ Len(l) >= 3
                /\ l[1] \notin {" ", "\n", "\t"}
                /\ l[Len(l)] \notin {" ", "\n", "\t"}
                /\ \A j \in 1 .. Len(l) - 1 :
                      ~(l[j] \in {" ", "\n", "\t"} /\ l[j + 1] \in {" ", "\n", "\t"})
                /\ \A j \in 1 .. Len(l) : l[j] \notin {U2022, "*", "-"}
                /\ l[1] \notin Digits \cup {".", "-"}

\* ------------------------------------------------------------------------
\* The meal type resolver as the specification states it
\* ------------------------------------------------------------------------
\* the stored categories a supplied name stands for: those whose name is, case
\* apart, the name the synonym map gives for it
NamedCategories(name) ==
    IF name.tag # "str" \/ name.s = << >> THEN {}
    ELSE {r \in meal_types :
            lower(r.name) = lower(MEAL_TYPE_MAPPING_get(strip(lower(name.s)), name.s))}

\* C20: name resolution has priority over ID resolution: when a meal-type name is
\* supplied and resolves to a stored category, that category is returned whatever
\* ID was supplied alongside (the ID of another existing category included); a
\* category other than the named one is returned only when the name resolves to
\* nothing.
C20_NameBeforeId ==
    resolve_call # None =>
        LET call == resolve_call[1]
            named == NamedCategories(call.meal_type_name)
        IN  /\ Cardinality(named) = 1 =>
                  /\ call.error = ""
                  /\ call.meal_type # None
                  /\ call.meal_type[1] \in named
            /\ (call.meal_type # None /\ call.meal_type[1] \notin named) =>
                  /\ named = {}
                  /\ call.meal_type[1].id = call.meal_type_id.n

C20_Witness ==
    /\ meal_types = CanonicalTable
    /\ resolve_call # None
    /\ resolve_call[1].meal_type_name = Str(<<" ", "L", "u", "n", "c", "h", " ">>)
    /\ resolve_call[1].meal_type_id = Num(1)
    /\ resolve_call[1].meal_type = Some([id |-> 2, name |-> m_Lunch])

\* the four categories are stored, each once
FourCategories ==
    \A c \in {m_Breakfast, m_Lunch, m_Snacks, m_Dinner} :
        Cardinality({r \in meal_types : r.name = c}) = 1

Category(c) == CHOOSE r \in meal_types : r.name = c

\* the stored categories whose name is, case apart, a substring of the supplied
\* name
ContainedCategories(name) ==
    {r \in meal_types : In(lower(r.name), lower(name.s))}

\* C21: with the four categories stored, a non-empty name that matches no
\* category exactly and contains none of the four names (resolve(None, 'Brunch'))
\* resolves to Snacks, and a name that contains one of the four names resolves to
\* that category.
C21_SubstringThenSnacks ==
    (resolve_call # None /\ FourCategories) =>
        LET call == resolve_call[1]
            contained == ContainedCategories(call.meal_type_name)
        IN  (truthy(call.meal_type_name)
                /\ NamedCategories(call.meal_type_name) = {}) =>
                /\ call.error = ""
                /\ call.meal_type # None
                /\ IF contained = {} THEN call.meal_type[1] = Category(m_Snacks)
                   ELSE call.meal_type[1] \in contained

\* C22: with the four categories stored, resolve(None, n) returns Snacks for
\* every n that lower-cases and trims to 'snack' or 'snacks', and Breakfast, Lunch
\* or Dinner for every case and padding variant of those names.
C22_CaseTrimSynonym ==
    (resolve_call # None /\ FourCategories) =>
        LET call == resolve_call[1]
            n == call.meal_type_name
        IN  (call.meal_type_id = Null /\ n.tag = "str") =>
                \A c \in {m_Breakfast, m_Lunch, m_Snacks, m_Dinner} :
                    (\/ strip(lower(n.s)) = lower(c)
                     \/ (c = m_Snacks /\ strip(lower(n.s)) = mk_snack)) =>
                        /\ call.error = ""
                        /\ call.meal_type = Some(Category(c))

C22_Witness ==
    /\ meal_types = CanonicalTable
    /\ resolve_call # None
    /\ resolve_call[1].meal_type_id = Null
    /\ resolve_call[1].meal_type_name = Str(mk_snack)
    /\ resolve_call[1].meal_type = Some([id |-> 4, name |-> m_Snacks])

\* the rows with the supplied ID
IdCategories(id) ==
    IF id.tag = "num" THEN {r \in meal_types : r.id = id.n} ELSE {}

\* C23: an unresolvable meal type is never an error: no call raises; None is
\* returned when the ID is unknown (resolve(5, None) with no category 5), when
\* neither ID nor name is given, and when both the name and the ID fail to
\* resolve; when the name fails to resolve and the ID exists, the ID's category
\* is returned.  A name resolves when exactly one stored category carries it.
C23_UnresolvableIsNone ==
    resolve_call # None =>
        LET call == resolve_call[1]
            named == NamedCategories(call.meal_type_name)
            byId == IdCategories(call.meal_type_id)
        IN  /\ call.error = ""
            /\ Cardinality(named) # 1 =>
                  IF byId = {} THEN call.meal_type = None
                  ELSE call.meal_type # None /\ call.meal_type[1] \in byId

\* ------------------------------------------------------------------------
\* The provider adapters as the specification states them
\* ------------------------------------------------------------------------
\* the error kind an exception of the code stands for
ErrorKind(o) ==
    CASE o = "SpoonacularAPIError" -> "ProviderUnavailable"
      [] o = "SpoonacularDataError" -> "ProviderDataInvalid"
      [] o = "returned" -> "none"
      [] OTHER -> "other"

\* the error kind an upstream failure is to surface as, "none" when the reply is
\* sound
UpstreamFailure(reply) ==
    IF reply.transport # "ok" THEN "ProviderUnavailable"
    ELSE IF reply.status = 402 THEN "ProviderQuotaExceeded"
    ELSE IF reply.status # 200 THEN "ProviderUnavailable"
    ELSE IF reply.body.kind # "nutrients" THEN "ProviderDataInvalid"
    ELSE IF \E i \in 1 .. Len(reply.body.nutrients) :
               LET e == reply.body.nutrients[i]
               IN  e.name.tag # "str" \/ e.amount.tag = "null" \/ ~float(e.amount).ok
         THEN "ProviderDataInvalid"
    ELSE "none"

\* C24: every upstream failure of an adapter (transport failure, non-200 status,
\* quota exceeded, invalid JSON, empty results, missing or empty nutrition data,
\* malformed nutrient entries) ends the call in the one error kind that stands
\* for it, of provider-unavailable, quota-exceeded and data-invalid, and nothing
\* else leaves get_spoonacular_data, get_spoonacular_recipe_by_id or
\* analyze_recipe_nutrition.
C24_ClosedErrorKinds ==
    (provider_call # None /\ ~provider_call[1].blank) =>
        ErrorKind(provider_call[1].outcome) = UpstreamFailure(provider_call[1].reply)

\* ------------------------------------------------------------------------
\* The concurrency model as the specification states it
\* ------------------------------------------------------------------------
Finished(t) == frames[t].op # "idle" /\ frames[t].result # None

\* C25: the core operations keep no state across calls and mutate neither their
\* inputs nor process-wide tables: under every interleaving of concurrent calls
\* a finished call holds exactly the result the operation gives when run alone
\* on its input, two calls of one operation on one input hold the same result,
\* and the input (the user profile included) and the lookup tables are as they
\* were before the call.
C25_CallsIndependent ==
    /\ tables = ProcessTables
    /\ \A t \in Threads :
          /\ frames[t].input = frames[t].given
          /\ Finished(t) =>
                LET alone == RunAlone(frames[t].op, frames[t].given)
                IN  /\ frames[t].result[1].error = alone.error
                    /\ alone.error = "" => frames[t].result[1].value = alone.value
    /\ \A s, t \in Threads :
          (Finished(s) /\ Finished(t) /\ frames[s].op = frames[t].op) =>
              (frames[s].given = frames[t].given => frames[s].result = frames[t].result)

\* two calls of normalize_text were interleaved pass by pass and both are over
C25_Witness ==
    /\ \A t \in Threads : Finished(t) /\ frames[t].op = "normalize_text"
    /\ frames[1].given = EnumeratedExample
    /\ frames[2].given = CommaExample

\* ------------------------------------------------------------------------
\* The delimiter fallback as the specification states it
\* ------------------------------------------------------------------------
\* the lines that survive the newline split of the raw text
SurvivingLines == normalized_parts(split(raw_text, "\n"))

PriorityOrder == << ",", ";", "|", "\n", U2022, "-" >>

\* the delimiters of the priority order that leave more than one surviving line
Succeeding ==
    {i \in 1 .. Len(PriorityOrder) :
        Len(normalized_parts(split(raw_text, PriorityOrder[i]))) > 1}

\* C26: when 2 or more lines survive the newline split the result is exactly
\* those lines; otherwise the result is that of the delimiter fallback: the
\* normalized parts of the first delimiter, in the order ',', ';', '|', newline,
\* bullet, '-' on the raw text, that leaves more than one surviving line, and, if
\* none does, the whole text normalized as one line, or nothing if it fails the
\* length filters.
C26_DelimiterFallback ==
    Normalized =>
        IF Len(SurvivingLines) >= 2 THEN ingredient_lines = SurvivingLines
        ELSE IF Succeeding # {}
        THEN LET first == CHOOSE i \in Succeeding : \A j \in Succeeding : i <= j
             IN  ingredient_lines = normalized_parts(split(raw_text, PriorityOrder[first]))
        ELSE LET whole == _normalize_line(raw_text)
             IN  ingredient_lines = IF whole = None THEN << >> ELSE << whole[1] >>

\* the fallback was taken on 'Flour;- Sugar', which both ';' and '-' split in
\* two surviving lines, and ';' was used
C26_Witness ==
    /\ Normalized
    /\ raw_text = <<"F", "l", "o", "u", "r", ";", "-", " ", "S", "u", "g", "a", "r">>
    /\ Len(SurvivingLines) < 2
    /\ {2, 6} \subseteq Succeeding
    /\ ingredient_lines = << <<"F", "l", "o", "u", "r">>, <<"S", "u", "g", "a", "r">> >>

\* a newline-delimited line that is shorter than 5 characters before cleaning or
\* shorter than 3 characters after it
NoiseLine(l) ==
    LET collapsed == join(<< " " >>, split_whitespace(l))
    IN  Len(collapsed) < 5 \/ Len(strip(sub_bullets(sub_leading(collapsed)))) < 3

\* the raw text without its noise lines
WithoutNoise ==
    LET lines == split(raw_text, "\n")
        kept == SelectSeq(lines, LAMBDA l : ~NoiseLine(l))
    IN  join(<< "\n" >>, kept)

\* C27: a newline-delimited line shorter than 5 characters before cleaning, or
\* shorter than 3 after it, contributes no text to any returned ingredient line,
\* whichever path is taken: the returned lines are those of the raw text with
\* its noise lines left out.
C27_NoiseDiscarded ==
    Normalized => ingredient_lines = normalize_text(WithoutNoise)

\* ------------------------------------------------------------------------
\* The meal grouping as the specification states it
\* ------------------------------------------------------------------------
Grouped == grouped # None

GroupedItems == grouped[1].food_items_data

GroupedData == grouped[1].grouped_data

\* the lower-cased, trimmed meal-type name of an item, empty when it is missing,
\* null or empty
ItemName(item) ==
    IF item.meal_type_name.tag = "str" THEN lower(strip(item.meal_type_name.s)) ELSE << >>

\* the group the specification gives a name: the first of breakfast, lunch, snack
\* and dinner the name contains, snacks when it contains none
GroupOfName(name) ==
    IF In(mk_breakfast, name) THEN "breakfast"
    ELSE IF In(mk_lunch, name) THEN "lunch"
    ELSE IF In(mk_snack, name) THEN "snacks"
    ELSE IF In(mk_dinner, name) THEN "dinner"
    ELSE "snacks"

\* C28: the grouping partitions its input: the result has exactly the keys
\* breakfast, lunch, snacks and dinner; every item is in exactly one group, so
\* the group sizes add up to the input length; the input order is kept within a
\* group; an item whose name is missing, empty or holds none of the four names
\* is in snacks; and the names are tried in the order breakfast, lunch, snack,
\* dinner.
C28_GroupingPartitions ==
    Grouped =>
        /\ DOMAIN GroupedData = {"breakfast", "lunch", "snacks", "dinner"}
        /\ Len(GroupedData.breakfast) + Len(GroupedData.lunch)
              + Len(GroupedData.snacks) + Len(GroupedData.dinner) = Len(GroupedItems)
        /\ \A i \in 1 .. Len(GroupedItems) :
              /\ Cardinality({<<k, j>> \in UNION {{<<g, n>> : n \in 1 .. Len(GroupedData[g])} :
                                                      g \in DOMAIN GroupedData} :
                                  GroupedData[k][j] = GroupedItems[i]}) = 1
              /\ \E j \in 1 .. Len(GroupedData[GroupOfName(ItemName(GroupedItems[i]))]) :
                    GroupedData[GroupOfName(ItemName(GroupedItems[i]))][j] = GroupedItems[i]
        /\ \A k \in DOMAIN GroupedData : \A i, j \in 1 .. Len(GroupedData[k]) :
              i < j => GroupedData[k][i].id < GroupedData[k][j].id

\* 'Dinner Breakfast', a missing name and 'Snack Lunch' were grouped: breakfast,
\* snacks and lunch hold one item each
C28_Witness ==
    /\ Grouped
    /\ Len(GroupedItems) = 3
    /\ GroupedItems[1].meal_type_name = Str(<<"D", "i", "n", "n", "e", "r", " ", "B", "r", "e", "a", "k", "f", "a", "s", "t">>)
    /\ GroupedItems[2].meal_type_name = Missing
    /\ GroupedItems[3].meal_type_name = Str(<<"S", "n", "a", "c", "k", " ", "L", "u", "n", "c", "h">>)
    /\ GroupedData.breakfast = << GroupedItems[1] >>
    /\ GroupedData.snacks = << GroupedItems[2] >>
    /\ GroupedData.lunch = << GroupedItems[3] >>

\* ------------------------------------------------------------------------
\* The range statistics as the specification states them
\* ------------------------------------------------------------------------
\* a query parameter that is present and not empty
Given(v) == v.tag = "str" /\ v.s # << >>

Parses(v) == Given(v) /\ parse_date(v.s).error = ""

\* C29: RangeFoodStatsView.get answers HTTP 400 with an error body, never an
\* unhandled exception, when start_date or end_date is missing, when one of them
\* is not parseable as a date, and when start_date is after end_date; statistics
\* are aggregated only when both dates parse and start_date <= end_date.
C29_InvalidRangeIs400 ==
    range_response # None =>
        LET start_str == range_response[1].start_date
            end_str == range_response[1].end_date
            r == range_response[1].response
            valid == /\ Parses(start_str)
                     /\ Parses(end_str)
                     /\ ~DateAfter(parse_date(start_str.s).date, parse_date(end_str.s).date)
        IN  /\ r.kind = "response"
            /\ ~valid => r.status = 400 /\ r.error # ""
            /\ r.aggregated => valid

\* ------------------------------------------------------------------------
\* The two nutrient mappers side by side
\* ------------------------------------------------------------------------
\* the fields the two mappers share, under the service's names
SharedFields ==
    {"calories", "protein", "carbohydrates", "fats", "saturated_fat", "trans_fat",
     "fiber", "sugar", "cholesterol", "sodium", "vitamin_a", "vitamin_c", "vitamin_d",
     "vitamin_e", "vitamin_k", "calcium", "iron", "potassium", "zinc"}

\* the view's name of a shared field
ViewName(f) ==
    CASE f = "fats" -> "fat"
      [] f = "vitamin_a" -> "vitaminA"
      [] f = "vitamin_c" -> "vitaminC"
      [] f = "vitamin_d" -> "vitaminD"
      [] f = "vitamin_e" -> "vitaminE"
      [] f = "vitamin_k" -> "vitaminK"
      [] OTHER -> f

\* C30: for every list of raw nutrient entries views.extract_nutrition_data and
\* SpoonacularService._extract_nutrition_data return the same values for the
\* fields they share, names that only contain a canonical keyword, such as
\* 'Total Fat' or 'Dietary Fiber', included.
C30_MappersAgree ==
    Returned =>
        LET built == build_nutrient_map(nutrients, << >>)
        IN  /\ built.error = ""
            /\ \A f \in SharedFields :
                  result[1][f] = dict_get(built.map, view_key(ViewName(f)), 0)

====
